---- MODULE Spec2Model ----
(***************************************************************************)
(* Model of the Jumbo price scraper (src/scraper.py and                    *)
(* src/scraper_improved.py): the run orchestrator `main`, the live-column  *)
(* flow `escribir_pweb` on sheet "P-web" and the historical flow           *)
(* `escribir_jumbo_historico` on sheet "Jumbo".                            *)
(*                                                                         *)
(* Strings are sequences of one-character strings, so that str.strip(),    *)
(* the A1 notation and the formatting of numbers are computed.  Python     *)
(* values are records [t, s, n]: None, a str or an int.  A worksheet is a  *)
(* grid row_count x col_count of cell values; a blank cell is the empty    *)
(* string, as the Sheets API reports it.                                   *)
(***************************************************************************)
EXTENDS Integers, Sequences, FiniteSets, TLC

VARIABLES
    script,                     \* which of the two scripts runs
    env,                        \* environment: is SHEET_ID / GCP_SHEETS_CREDENTIALS set
    fecha_str,                  \* the run's date label
    pc,                         \* position of main
    productos,                  \* rows read from "Jumbo-info"
    idx,                        \* rows of productos already iterated
    dict_sku_precio_kg_jumbo,   \* insertion-ordered dict: sequence of [sku, val]
    stats,                      \* ok: stats["ok"] / exitosos; fallidos: stats["fallidos"] / len(errores_scraping)
    builds,                     \* calls of build_browser() that returned a driver
    quits,                      \* calls of driver.quit()
    gets,                       \* driver.get(url) calls of the latest loop iteration
    status,                     \* status returned by the fetch of that iteration ("" = no fetch)
    pendiente,                  \* exception propagating out of main ("" = none)
    actualizado_pweb,
    actualizado_historico,
    intentos,                   \* write flows invoked so far, with their argument
    resumen,                    \* the printed tally (total, con_valor, sin_valor)
    ws_pweb,                    \* worksheet "P-web"
    ws_hist,                    \* worksheet "Jumbo"
    pweb0,                      \* ws_pweb as it was when the run started
    hist0,                      \* ws_hist as it was when the run started
    staged_pweb,                \* updates staged by the last escribir_pweb
    new_col_idx,                \* column chosen by the last escribir_jumbo_historico
    llamada,                    \* a call of one of the pure helpers, with its result
    previa                      \* what an earlier run of the day left in "Jumbo"

vars == << script, env, fecha_str, pc, productos, idx, dict_sku_precio_kg_jumbo,
           stats, builds, quits, gets, status, pendiente, actualizado_pweb,
           actualizado_historico, intentos, resumen, ws_pweb, ws_hist, pweb0,
           hist0, staged_pweb, new_col_idx, llamada, previa >>

-----------------------------------------------------------------------------
(* Bounds of the model *)

\* data rows (below the header) of the initial worksheets
MaxFilas == 2
\* input rows of "Jumbo-info"
MaxProductos == 2

-----------------------------------------------------------------------------
(* Program constants *)

COL_SKU_PWEB == 2
COL_JUMBO_KG_PWEB == 9
COL_SKU_HIST == 2
COL_FECHAS_INICIA_EN == 3
batch_size == 50
RETRIES == 2

-----------------------------------------------------------------------------
(* Python values and strings *)

PyNone == [t |-> "none", s |-> << >>, n |-> 0]
PyStr(x) == [t |-> "str", s |-> x, n |-> 0]
PyInt(k) == [t |-> "int", s |-> << >>, n |-> k]
Blank == PyStr(<< >>)
\* the floats that are no ordinary number of grams: float("nan"), float("inf")
\* and the smallest positive double, 5e-324; s holds the name
PyFloat(x) == [t |-> "float", s |-> x, n |-> 0]
NaN == PyFloat(<< "n", "a", "n" >>)
Inf == PyFloat(<< "i", "n", "f" >>)
Infimo == PyFloat(<< "5", "e", "-", "3", "2", "4" >>)

Max(S) == CHOOSE x \in S : \A y \in S : y <= x

IsSpace(c) == c = " "

\* str.strip(): drop leading and trailing whitespace
RECURSIVE LStrip(_)
LStrip(x) == IF x # << >> /\ IsSpace(Head(x)) THEN LStrip(Tail(x)) ELSE x

RECURSIVE RStrip(_)
RStrip(x) ==
    IF x # << >> /\ IsSpace(x[Len(x)]) THEN RStrip(SubSeq(x, 1, Len(x) - 1)) ELSE x

Strip(x) == RStrip(LStrip(x))

Digitos == << "0", "1", "2", "3", "4", "5", "6", "7", "8", "9" >>

\* decimal rendering of a natural number
RECURSIVE NatToStr(_)
NatToStr(k) ==
    IF k < 10 THEN << Digitos[k + 1] >>
    ELSE NatToStr(k \div 10) \o << Digitos[(k % 10) + 1] >>

\* what the Sheets API returns for a cell: its displayed text
Formatted(v) == IF v.t = "int" THEN NatToStr(v.n) ELSE v.s

\* Python truthiness of a value (None, "" and 0 are falsy)
Truthy(v) ==
    CASE v.t = "none" -> FALSE
      [] v.t = "str" -> v.s # << >>
      [] v.t = "float" -> v.s # << "0", ".", "0" >>
      [] OTHER -> v.n # 0

-----------------------------------------------------------------------------
(* A1 notation *)

Letras == << "A", "B", "C", "D", "E", "F", "G", "H", "I", "J", "K", "L", "M",
             "N", "O", "P", "Q", "R", "S", "T", "U", "V", "W", "X", "Y", "Z" >>

RECURSIVE col_idx_to_letter(_)
col_idx_to_letter(i) ==
    IF i <= 0 THEN << >>
    ELSE col_idx_to_letter((i - 1) \div 26) \o << Letras[((i - 1) % 26) + 1] >>

LetraValor(c) == CHOOSE k \in 1..26 : Letras[k] = c

\* the API's reading of the column letters of an A1 range
RECURSIVE A1Col(_)
A1Col(l) ==
    IF l = << >> THEN 0
    ELSE 26 * A1Col(SubSeq(l, 1, Len(l) - 1)) + LetraValor(l[Len(l)])

\* f"{letters}{row}": the range of a single-cell update
A1(letters, row) == [letters |-> letters, row |-> row]

-----------------------------------------------------------------------------
(* Worksheets (gspread.Worksheet) *)

Celdas(ws) == (1..ws.row_count) \X (1..ws.col_count)

EnHoja(ws, r, c) == r >= 1 /\ r <= ws.row_count /\ c >= 1 /\ c <= ws.col_count

GetCell(ws, r, c) == IF EnHoja(ws, r, c) THEN ws.cells[<< r, c >>] ELSE Blank

\* last populated column of row r, 0 when the row is blank
LastColOfRow(ws, r) ==
    Max({0} \cup {c \in 1..ws.col_count : GetCell(ws, r, c) # Blank})

\* last populated row of column c, 0 when the column is blank
LastRowOfCol(ws, c) ==
    Max({0} \cup {r \in 1..ws.row_count : GetCell(ws, r, c) # Blank})

LastRow(ws) == Max({0} \cup {r \in 1..ws.row_count : LastColOfRow(ws, r) > 0})

LastCol(ws) == Max({0} \cup {LastColOfRow(ws, r) : r \in 1..ws.row_count})

\* Worksheet.col_values(c): the column down to its last populated cell
col_values(ws, c) == [r \in 1..LastRowOfCol(ws, c) |-> Formatted(GetCell(ws, r, c))]

\* Worksheet.row_values(r): the row up to its last populated cell
row_values(ws, r) == [c \in 1..LastColOfRow(ws, r) |-> Formatted(GetCell(ws, r, c))]

\* Worksheet.get_all_values(): the populated rectangle, rows padded to one width
get_all_values(ws) ==
    [r \in 1..LastRow(ws) |-> [c \in 1..LastCol(ws) |-> Formatted(GetCell(ws, r, c))]]

\* the grid grown to at least rows x cols, new cells blank
Resize(ws, rows, cols) ==
    LET R == IF rows > ws.row_count THEN rows ELSE ws.row_count
        C == IF cols > ws.col_count THEN cols ELSE ws.col_count
    IN  [row_count |-> R, col_count |-> C,
         cells |-> [p \in (1..R) \X (1..C) |-> GetCell(ws, p[1], p[2])]]

\* a value as the cell stores it
ToCell(v) == IF v.t = "none" THEN Blank ELSE v

SetCell(ws, r, c, v) == [ws EXCEPT !.cells[<< r, c >>] = ToCell(v)]

\* an update is [range |-> A1 range, values |-> value]
EnGrid(ws, u) == EnHoja(ws, u.range.row, A1Col(u.range.letters))

\* the API rejects a batch holding a range outside the grid
BatchAceptable(ws, updates) == \A k \in 1..Len(updates) : EnGrid(ws, updates[k])

RECURSIVE ApplyUpdates(_, _)
ApplyUpdates(ws, updates) ==
    IF updates = << >> THEN ws
    ELSE ApplyUpdates(
             SetCell(ws, Head(updates).range.row, A1Col(Head(updates).range.letters),
                     Head(updates).values),
             Tail(updates))

\* Worksheet.append_rows(rows): the rows go below the last populated row, from
\* column A, and the grid grows by the rows it lacks
RECURSIVE PonerFilas(_, _, _)
PonerFilas(ws, r, rows) ==
    IF rows = << >> THEN ws
    ELSE LET fila == Head(rows)
             RECURSIVE Poner(_, _)
             Poner(w, c) == IF c > Len(fila) THEN w
                            ELSE Poner(SetCell(w, r, c, fila[c]), c + 1)
         IN  PonerFilas(Poner(ws, 1), r + 1, Tail(rows))

append_rows(ws, rows) ==
    PonerFilas(Resize(ws, LastRow(ws) + Len(rows), 0), LastRow(ws) + 1, rows)

-----------------------------------------------------------------------------
(* dict[str, Optional[int]] kept in insertion order *)

Claves(d) == {d[k].sku : k \in 1..Len(d)}

Tiene(d, sku) == sku \in Claves(d)

Valor(d, sku) == d[CHOOSE k \in 1..Len(d) : d[k].sku = sku].val

\* d[sku] = val
Asignar(d, sku, val) ==
    IF Tiene(d, sku)
    THEN [k \in 1..Len(d) |-> IF d[k].sku = sku THEN [sku |-> sku, val |-> val] ELSE d[k]]
    ELSE Append(d, [sku |-> sku, val |-> val])

-----------------------------------------------------------------------------
(* mapear_sku_a_fila: SKU -> row of its last occurrence, header row skipped *)

mapear_sku_a_fila(ws, col_sku_idx) ==
    LET values == col_values(ws, col_sku_idx)
        filas(s) == {i \in 2..Len(values) : Strip(values[i]) = s}
        skus == {Strip(values[i]) : i \in 2..Len(values)} \ {<< >>}
    IN  [s \in skus |-> Max(filas(s))]

\* sku_to_row.get(sku): 0 stands for None
FilaDe(sku_to_row, sku) == IF sku \in DOMAIN sku_to_row THEN sku_to_row[sku] ELSE 0

-----------------------------------------------------------------------------
(* Live-column flow: escribir_pweb *)

\* faulty variant of PwebUpdates: the test `nuevo is None or nuevo == ""` is
\* missing, so an absent result is staged like any other
RECURSIVE PwebUpdatesSinFiltro(_, _)
PwebUpdatesSinFiltro(sku_to_row, d) ==
    IF d = << >> THEN << >>
    ELSE LET row == FilaDe(sku_to_row, Head(d).sku)
             una == IF row = 0 \/ row = 1 THEN << >>
                    ELSE << [range |-> A1(<< "I" >>, row), values |-> Head(d).val] >>
         IN  una \o PwebUpdatesSinFiltro(sku_to_row, Tail(d))

\* faulty variant of PwebUpdates: the range names column H
RECURSIVE PwebUpdatesColumnaH(_, _)
PwebUpdatesColumnaH(sku_to_row, d) ==
    IF d = << >> THEN << >>
    ELSE LET row == FilaDe(sku_to_row, Head(d).sku)
             nuevo == Head(d).val
             una == IF row = 0 \/ row = 1 THEN << >>
                    ELSE IF nuevo = PyNone \/ nuevo = PyStr(<< >>) THEN << >>
                    ELSE << [range |-> A1(<< "H" >>, row), values |-> nuevo] >>
         IN  una \o PwebUpdatesColumnaH(sku_to_row, Tail(d))

\* the updates escribir_pweb stages, in the dict's order
RECURSIVE PwebUpdates(_, _)
PwebUpdates(sku_to_row, d) ==
    IF d = << >> THEN << >>
    ELSE LET sku == Head(d).sku
             nuevo == Head(d).val
             row == FilaDe(sku_to_row, sku)
             una == IF row = 0 \/ row = 1 THEN << >>
                    ELSE IF nuevo = PyNone \/ nuevo = PyStr(<< >>) THEN << >>
                    ELSE << [range |-> A1(<< "I" >>, row), values |-> nuevo] >>
         IN  una \o PwebUpdates(sku_to_row, Tail(d))

\* escribir_pweb(ws_pweb, d) under an API outcome: falla = "leer" (col_values
\* raises), "batch" (batch_update raises) or "" (no API error)
escribir_pweb(ws, d, falla) ==
    IF falla = "leer" THEN [ws |-> ws, ok |-> FALSE, updates |-> << >>]
    ELSE LET updates == PwebUpdates(mapear_sku_a_fila(ws, COL_SKU_PWEB), d)
         IN  IF updates = << >> THEN [ws |-> ws, ok |-> TRUE, updates |-> updates]
             ELSE IF falla = "batch" \/ ~BatchAceptable(ws, updates)
                  THEN [ws |-> ws, ok |-> FALSE, updates |-> updates]
                  ELSE [ws |-> ApplyUpdates(ws, updates), ok |-> TRUE,
                        updates |-> updates]

-----------------------------------------------------------------------------
(* Historical flow: escribir_jumbo_historico *)

\* scraper_improved.py: the column after the last populated cell of row 1, at
\* least C; column C when reading row 1 raises
obtener_siguiente_columna_historico(ws, lectura_falla) ==
    IF lectura_falla THEN COL_FECHAS_INICIA_EN
    ELSE LET ultima_col_con_fecha == Len(row_values(ws, 1))
         IN  IF ultima_col_con_fecha < COL_FECHAS_INICIA_EN
             THEN COL_FECHAS_INICIA_EN
             ELSE ultima_col_con_fecha + 1

\* faulty variant of SiguienteColumna: only the header row is measured
SiguienteColumnaSoloEncabezado(ws) ==
    IF Len(row_values(ws, 1)) >= COL_FECHAS_INICIA_EN THEN Len(row_values(ws, 1)) + 1
    ELSE COL_FECHAS_INICIA_EN

\* scraper.py: the column after the widest row of get_all_values(), at least C
SiguienteColumna(ws) ==
    LET leidos == get_all_values(ws)
        values == IF leidos = << >> THEN << << << >> >> >> ELSE leidos
        num_cols == Max({Len(values[r]) : r \in 1..Len(values)})
    IN  IF num_cols >= COL_FECHAS_INICIA_EN THEN num_cols + 1
        ELSE COL_FECHAS_INICIA_EN

\* expandir_hoja_si_necesario: add_cols, then add_rows; an API error ends it
\* silently (falla = "cols", "rows" or "")
expandir_hoja_si_necesario(ws, columnas_necesarias, filas_necesarias, falla) ==
    LET faltan_cols == ws.col_count < columnas_necesarias
        faltan_rows == ws.row_count < filas_necesarias
    IN  IF faltan_cols /\ falla = "cols" THEN ws
        ELSE LET w1 == IF faltan_cols THEN Resize(ws, 0, columnas_necesarias) ELSE ws
             IN  IF faltan_rows /\ falla # "rows"
                 THEN Resize(w1, filas_necesarias, 0)
                 ELSE w1

\* faulty variant of SkusNuevos: every non-empty key gets a new row, whether or
\* not the sheet has one for it
RECURSIVE SkusTodos(_, _)
SkusTodos(d, sku_to_row) ==
    IF d = << >> THEN << >>
    ELSE (IF Head(d).sku # << >> THEN << Head(d).sku >> ELSE << >>)
             \o SkusTodos(Tail(d), sku_to_row)

\* the keys of d that are non-empty and have no row yet, in the dict's order
RECURSIVE SkusNuevos(_, _)
SkusNuevos(d, sku_to_row) ==
    IF d = << >> THEN << >>
    ELSE (IF Head(d).sku # << >> /\ Head(d).sku \notin DOMAIN sku_to_row
          THEN << Head(d).sku >> ELSE << >>) \o SkusNuevos(Tail(d), sku_to_row)

\* the updates of the new date column, in the dict's order
RECURSIVE HistUpdates(_, _, _)
HistUpdates(sku_to_row, d, col) ==
    IF d = << >> THEN << >>
    ELSE LET r == FilaDe(sku_to_row, Head(d).sku)
             val == Head(d).val
             una == IF r = 0 \/ r = 1 THEN << >>
                    ELSE << [range |-> A1(col_idx_to_letter(col), r),
                             values |-> IF val = PyNone THEN PyStr(<< >>) ELSE val] >>
         IN  una \o HistUpdates(sku_to_row, Tail(d), col)

\* faulty variant of Lotes: only the full batches
LotesSinResto(updates, size) ==
    [k \in 1..(Len(updates) \div size) |->
        SubSeq(updates, size * (k - 1) + 1, size * k)]

\* updates[i:i+size] for i in range(0, len(updates), size)
Lotes(updates, size) ==
    [k \in 1..((Len(updates) + size - 1) \div size) |->
        SubSeq(updates, size * (k - 1) + 1,
               IF size * k < Len(updates) THEN size * k ELSE Len(updates))]

\* batch_update per batch, in order; batch number `malo` raises (0: none does),
\* and so does a batch the API rejects; the batches sent before it stay written
RECURSIVE EnviarLotes(_, _, _, _)
EnviarLotes(ws, lotes, k, malo) ==
    IF k > Len(lotes) THEN [ws |-> ws, ok |-> TRUE]
    ELSE IF k = malo \/ ~BatchAceptable(ws, lotes[k]) THEN [ws |-> ws, ok |-> FALSE]
    ELSE EnviarLotes(ApplyUpdates(ws, lotes[k]), lotes, k + 1, malo)

\* what the flow reports: the sheet it leaves, whether it returned normally,
\* the column it chose (0: none yet) and the API call that raised
Salida(ws, ok, col, falla) == [ws |-> ws, ok |-> ok, col |-> col, falla |-> falla]

\* faulty variant of HistoricoDesdeEncabezado: the map is not read again after
\* the append, so the rows just appended are unknown to step 6
HistoricoSinReleer(w, d, sku_to_row, col, o) ==
    LET skus_nuevos == SkusNuevos(d, sku_to_row)
        to_append == [k \in 1..Len(skus_nuevos) |->
                         [c \in 1..(COL_SKU_HIST - 1) |-> PyStr(<< >>)]
                             \o << PyStr(skus_nuevos[k]) >>]
        w3 == IF skus_nuevos # << >> THEN append_rows(w, to_append) ELSE w
        envio == EnviarLotes(w3, Lotes(HistUpdates(sku_to_row, d, col), batch_size), 1,
                             IF o.falla = "batch" THEN o.lote ELSE 0)
    IN  IF skus_nuevos # << >> /\ o.falla = "append" THEN Salida(w, FALSE, col, "append")
        ELSE IF envio.ok THEN Salida(envio.ws, TRUE, col, "")
        ELSE Salida(envio.ws, FALSE, col, "batch")

\* steps 5-6 of scraper_improved.py (append the new SKUs, re-read the map, write
\* the column in batches), from the sheet w with the header written
HistoricoDesdeEncabezado(w, d, sku_to_row, col, o) ==
    LET skus_nuevos == SkusNuevos(d, sku_to_row)
        to_append == [k \in 1..Len(skus_nuevos) |->
                         [c \in 1..(COL_SKU_HIST - 1) |-> PyStr(<< >>)]
                             \o << PyStr(skus_nuevos[k]) >>]
        w3 == IF skus_nuevos # << >> THEN append_rows(w, to_append) ELSE w
        mapa == IF skus_nuevos # << >> THEN mapear_sku_a_fila(w3, COL_SKU_HIST)
                ELSE sku_to_row
        updates == HistUpdates(mapa, d, col)
        envio == EnviarLotes(w3, Lotes(updates, batch_size), 1,
                             IF o.falla = "batch" THEN o.lote ELSE 0)
    IN  IF skus_nuevos # << >> /\ o.falla = "append" THEN Salida(w, FALSE, col, "append")
        ELSE IF skus_nuevos # << >> /\ o.falla = "remapear"
             THEN Salida(w3, FALSE, col, "remapear")
        ELSE IF envio.ok THEN Salida(envio.ws, TRUE, col, "")
        ELSE Salida(envio.ws, FALSE, col, "batch")

\* scraper_improved.py escribir_jumbo_historico under the API outcome o
escribir_jumbo_historico_improved(ws, d, fecha, o) ==
    IF o.falla = "mapear" THEN Salida(ws, FALSE, 0, "mapear")
    ELSE LET sku_to_row == mapear_sku_a_fila(ws, COL_SKU_HIST)
             col == obtener_siguiente_columna_historico(ws, o.col_falla)
             skus_nuevos == SkusNuevos(d, sku_to_row)
             max_row_needed ==
                 (IF DOMAIN sku_to_row # {}
                  THEN Max({sku_to_row[s] : s \in DOMAIN sku_to_row}) ELSE 1)
                 + Len(skus_nuevos)
             w1 == expandir_hoja_si_necesario(ws, col, max_row_needed + 1, o.expandir)
             w2 == SetCell(w1, 1, col, fecha)
         IN  IF o.falla = "header" \/ ~EnHoja(w1, 1, col)
             THEN Salida(w1, FALSE, col, "header")
             ELSE HistoricoDesdeEncabezado(w2, d, sku_to_row, col, o)

\* scraper.py escribir_jumbo_historico under the API outcome o
escribir_jumbo_historico_scraper(ws, d, fecha, o) ==
    IF o.falla = "mapear" THEN Salida(ws, FALSE, 0, "mapear")
    ELSE IF o.falla = "leer" THEN Salida(ws, FALSE, 0, "leer")
    ELSE LET sku_to_row == mapear_sku_a_fila(ws, COL_SKU_HIST)
             col == SiguienteColumna(ws)
             header == << [range |-> A1(col_idx_to_letter(col), 1), values |-> fecha] >>
             w2 == ApplyUpdates(ws, header)
             to_append == [k \in 1..Len(SkusNuevos(d, sku_to_row)) |->
                              << PyStr(<< >>), PyStr(SkusNuevos(d, sku_to_row)[k]) >>]
             w3 == IF to_append # << >> THEN append_rows(w2, to_append) ELSE w2
             mapa == IF to_append # << >> THEN mapear_sku_a_fila(w3, COL_SKU_HIST)
                     ELSE sku_to_row
             updates == HistUpdates(mapa, d, col)
         IN  IF o.falla = "header" \/ ~BatchAceptable(ws, header)
             THEN Salida(ws, FALSE, col, "header")
             ELSE IF to_append # << >> /\ o.falla = "append"
                  THEN Salida(w2, FALSE, col, "append")
             ELSE IF to_append # << >> /\ o.falla = "remapear"
                  THEN Salida(w3, FALSE, col, "remapear")
             ELSE IF updates = << >> THEN Salida(w3, TRUE, col, "")
             ELSE IF o.falla = "batch" \/ ~BatchAceptable(w3, updates)
                  THEN Salida(w3, FALSE, col, "batch")
             ELSE Salida(ApplyUpdates(w3, updates), TRUE, col, "")

escribir_jumbo_historico(s, ws, d, fecha, o) ==
    IF s = "improved" THEN escribir_jumbo_historico_improved(ws, d, fecha, o)
    ELSE escribir_jumbo_historico_scraper(ws, d, fecha, o)

\* the API outcomes of one call of the historical flow: every call succeeds, the
\* header write raises, or the batch write raises
ResultadosBasicos ==
    [falla : {"", "header", "batch"}, lote : {1}, col_falla : {FALSE}, expandir : {""}]

\* the API outcomes of one call of the historical flow of script s: any mix of
\* the errors the flow swallows (reading row 1, growing the grid), or one error
\* that it raises
ResultadosApi(s) ==
    IF s = "improved"
    THEN [falla : {""}, lote : {1}, col_falla : BOOLEAN, expandir : {"", "cols", "rows"}]
         \cup [falla : {"mapear", "header", "append", "remapear", "batch"}, lote : {1},
               col_falla : {FALSE}, expandir : {""}]
    ELSE [falla : {"", "mapear", "leer", "header", "append", "remapear", "batch"},
          lote : {1}, col_falla : {FALSE}, expandir : {""}]

-----------------------------------------------------------------------------
(* Unit converter and fetch step *)

\* Python floats are IEEE 754 doubles: MANT significant bits, every operation
\* rounded to the nearest double, ties to the even mantissa.  A positive double is
\* [m, e]: m its MANT bits, the first of them 1, e the binary exponent of that
\* first bit.  Natural numbers wider than the model checker's integers are
\* sequences of bits, the most significant first; they are worked on eight bits
\* at a time.
MANT == 53

\* the natural n < 2^c on c bits
Bits(n, c) == [i \in 1..c |-> (n \div 2 ^ (c - i)) % 2]

\* the bits of the natural n < 2^31 from its first 1 on, << >> for 0
Binario(n) == Bits(n, Cardinality({i \in 0..30 : 2 ^ i <= n}))

Ceros(n) == [k \in 1..n |-> 0]

\* the natural whose bits are b, Len(b) <= 8
Octeto(b) ==
    LET o == Ceros(8 - Len(b)) \o b
    IN  128 * o[1] + 64 * o[2] + 32 * o[3] + 16 * o[4] + 8 * o[5] + 4 * o[6] + 2 * o[7] + o[8]

\* the natural whose bits are b
RECURSIVE Natural(_)
Natural(b) ==
    IF Len(b) <= 8 THEN Octeto(b)
    ELSE 256 * Natural(SubSeq(b, 1, Len(b) - 8)) + Octeto(SubSeq(b, Len(b) - 7, Len(b)))

\* b + 1 on Len(b) bits, with the carry out: the last 0 of b becomes 1 and
\* the 1s after it become 0
Incrementar(b) ==
    IF \A i \in 1..Len(b) : b[i] = 1 THEN [bits |-> Ceros(Len(b)), carry |-> 1]
    ELSE CHOOSE r \in {[bits |-> SubSeq(b, 1, z - 1) \o << 1 >> \o Ceros(Len(b) - z),
                         carry |-> 0] :
                           z \in {i \in 1..Len(b) :
                                     b[i] = 0 /\ \A k \in (i + 1)..Len(b) : b[k] = 1}} : TRUE

\* the next 8 * n bits of the binary expansion of r / w (0 <= r < w < 2^23),
\* and the remainder left after them
RECURSIVE Fraccion(_, _, _)
Fraccion(r, w, n) ==
    IF n = 0 THEN [bits |-> << >>, rem |-> r]
    ELSE CHOOSE x \in {[bits |-> Bits((r * 256) \div w, 8) \o d.bits, rem |-> d.rem] :
                           d \in {Fraccion((r * 256) % w, w, n - 1)}} : TRUE

\* the zero bits that open the binary expansion of r / w (0 < r < w)
CerosIniciales(r, w) == CHOOSE z \in 0..30 : r * 2 ^ z < w /\ r * 2 ^ (z + 1) >= w

\* the double nearest to the real number whose bits are b (the first one 1, of
\* exponent e) followed by something non-zero iff resto: round to nearest, ties
\* to even
Doble(b, e, resto) ==
    LET m == SubSeq(b, 1, MANT)
        sube == /\ b[MANT + 1] = 1
                /\ \/ resto
                   \/ \E k \in (MANT + 2)..Len(b) : b[k] = 1
                   \/ b[MANT] = 1
    IN  IF ~sube THEN [m |-> m, e |-> e]
        ELSE CHOOSE x \in {IF inc.carry = 0 THEN [m |-> inc.bits, e |-> e]
                           ELSE [m |-> << 1 >> \o Ceros(MANT - 1), e |-> e + 1] :
                           inc \in {Incrementar(m)}} : TRUE

\* the first n bits of the binary expansion of r / w from its first 1 on
\* (0 < r < w < 2^23, z zero bits before that 1), rounded to a double
DobleMenor(r, w, z) ==
    CHOOSE x \in {Doble(d.bits, 0 - (z + 1), d.rem # 0) :
                     d \in {Fraccion(r * 2 ^ z, w, (MANT + 8) \div 8)}} : TRUE

\* the bits ent of a natural followed by the binary expansion of r / w, rounded
\* to a double
DobleMayor(ent, r, w) ==
    CHOOSE x \in {Doble(ent \o d.bits, Len(ent) - 1, d.rem # 0) :
                     d \in {Fraccion(r, w, (MANT + 8) \div 8)}} : TRUE

\* p / w for an int p > 0 and a float w > 0 of integral value: the quotient of
\* the two doubles
Dividir(p, w) ==
    IF p >= w THEN DobleMayor(Binario(p \div w), p % w, w)
    ELSE DobleMenor(p, w, CerosIniciales(p, w))

\* the bits of Natural(b) * k + c for naturals k < 2^15 and c < 2^15, eight
\* bits of b at a time from its end
RECURSIVE Multiplicar(_, _, _)
Multiplicar(b, k, c) ==
    IF Len(b) <= 8 THEN Binario(Octeto(b) * k + c)
    ELSE CHOOSE r \in {Multiplicar(SubSeq(b, 1, Len(b) - 8), k, t \div 256)
                           \o Bits(t % 256, 8) :
                       t \in {Octeto(SubSeq(b, Len(b) - 7, Len(b))) * k + c}} : TRUE

\* x * k for a double x > 0 and a natural k, 0 < k < 2^15
Por(x, k) ==
    CHOOSE y \in {Doble(prod, x.e + Len(prod) - MANT, FALSE) :
                     prod \in {Multiplicar(x.m, k, 0)}} : TRUE

\* round(x) for a double x > 0: the nearest int, ties to even
PyRound(x) ==
    IF x.e < 0 - 1 THEN 0
    ELSE LET k == x.e + 1
             ent == Natural(SubSeq(x.m, 1, k))
         IN  IF k >= MANT THEN Natural(x.m \o Ceros(k - MANT))
             ELSE LET guarda == x.m[k + 1]
                      cola == \E j \in (k + 2)..MANT : x.m[j] = 1
                  IN  IF guarda = 1 /\ (cola \/ ent % 2 = 1) THEN ent + 1 ELSE ent

\* round(p / w * 1000) for an int p > 0 and a float w > 0 of integral value,
\* each intermediate result a value of its own
Redondeado(p, w) ==
    CHOOSE v \in {PyRound(y) : y \in {Por(x, 1000) : x \in {Dividir(p0, w0) :
                     p0 \in {p}, w0 \in {w}}}} : TRUE

\* the body of precio_por_kg for the weights nan, inf and 5e-324, none of
\* which is <= 0: with nan the product is nan and round raises ValueError;
\* with inf the quotient is 0.0; with 5e-324 the quotient of a price other
\* than 0 is infinite and round raises OverflowError. The except clause turns
\* both exceptions into None.
DeFlotanteEspecial(precio, peso_gr) ==
    IF peso_gr = NaN THEN PyNone
    ELSE IF peso_gr = Inf THEN PyInt(0)
    ELSE IF precio.n = 0 THEN PyInt(0)
    ELSE PyNone

\* faulty variant of precio_por_kg: only a weight of 0 is refused, a negative
\* weight gives a negative price
PrecioPorKgSinSigno(precio, peso_gr) ==
    IF precio = PyNone \/ peso_gr = PyNone THEN PyNone
    ELSE IF peso_gr.t = "float" THEN DeFlotanteEspecial(precio, peso_gr)
    ELSE IF peso_gr.n = 0 THEN PyNone
    ELSE IF precio.n = 0 THEN PyInt(0)
    ELSE IF peso_gr.n < 0 THEN PyInt(0 - Redondeado(precio.n, 0 - peso_gr.n))
    ELSE PyInt(Redondeado(precio.n, peso_gr.n))

\* round(int(precio) / peso_gr * 1000) in double arithmetic; None without a
\* price, without a weight or with a weight <= 0
precio_por_kg(precio, peso_gr) ==
    IF precio = PyNone \/ peso_gr = PyNone THEN PyNone
    ELSE IF peso_gr.t = "float" THEN DeFlotanteEspecial(precio, peso_gr)
    ELSE IF peso_gr.n <= 0 THEN PyNone
    ELSE IF precio.n = 0 THEN PyInt(0)
    ELSE IF precio.n < 0 THEN PyInt(0 - Redondeado(0 - precio.n, peso_gr.n))
    ELSE PyInt(Redondeado(precio.n, peso_gr.n))

\* scraper_improved.py obtener_precios over the outcomes of its attempts: an
\* attempt is [t |-> "error"] (driver.get raises) or [t |-> "dom", unit, kg]
\* (what encontrar_precios_en_dom returns)
RECURSIVE obtener_precios(_, _, _)
obtener_precios(outs, intento, last_err) ==
    IF intento > RETRIES + 1
    THEN [unit |-> PyNone, kg |-> PyNone,
          status |-> IF last_err = "" THEN "desconocido" ELSE last_err,
          gets |-> intento - 1]
    ELSE LET o == outs[intento]
         IN  IF o.t = "error"
             THEN obtener_precios(outs, intento + 1, "error_navegacion")
             ELSE IF (Truthy(o.unit) /\ o.unit.n > 0) \/ (Truthy(o.kg) /\ o.kg.n > 0)
                  THEN [unit |-> o.unit, kg |-> o.kg, status |-> "ok", gets |-> intento]
                  ELSE obtener_precios(outs, intento + 1, "precio_no_encontrado")

\* scraper.py obtener_precio_mejorado over the outcomes of its attempts: an
\* attempt is [t |-> "timeout"], [t |-> "error"], or [t |-> "pagina", metodo,
\* precio]: the first strategy that yields a price, or none
RECURSIVE obtener_precio_mejorado(_, _, _)
obtener_precio_mejorado(outs, intento, last_err) ==
    IF intento > RETRIES + 1
    THEN [precio |-> PyNone, status |-> last_err, gets |-> intento - 1]
    ELSE LET o == outs[intento]
         IN  IF o.t = "timeout" THEN obtener_precio_mejorado(outs, intento + 1, "timeout")
             ELSE IF o.t = "error"
                  THEN obtener_precio_mejorado(outs, intento + 1, "error")
             ELSE IF Truthy(o.precio) /\ o.precio.n > 0
                  THEN [precio |-> o.precio, status |-> o.metodo, gets |-> intento]
                  ELSE obtener_precio_mejorado(outs, intento + 1, "precio_no_encontrado")

\* the statuses the two fetch functions return without a price
Fallos == {"timeout", "error", "error_navegacion", "precio_no_encontrado", "desconocido"}

-----------------------------------------------------------------------------
(* One iteration of the row loop of main *)

\* the loop's data: the dict, the counters, and the driver.get calls and the
\* fetch status of the row
Acumulado(d, st, g, e) == [dict |-> d, stats |-> st, gets |-> g, status |-> e]

Sumar(st, campo) == [st EXCEPT ![campo] = @ + 1]

\* faulty variant of ProcesarScraper: the row is fetched whatever its weight
ProcesarScraperSinPeso(ac, item, outs) ==
    LET sku == item.SKU
        peso_j == item.PesoJumbo_g
    IN  IF sku = << >> \/ item.URL = << >>
        THEN Acumulado(Asignar(ac.dict, sku, PyNone), Sumar(ac.stats, "fallidos"), 0, "")
        ELSE LET f == obtener_precio_mejorado(outs, 1, "")
                 g == f.gets
             IN  IF f.precio = PyNone
                 THEN Acumulado(Asignar(ac.dict, sku, PyNone),
                                Sumar(ac.stats, "fallidos"), g, f.status)
                 ELSE Acumulado(Asignar(ac.dict, sku, precio_por_kg(f.precio, peso_j)),
                                Sumar(ac.stats, "ok"), g, f.status)

\* scraper.py main, lines 729-758
ProcesarScraper(ac, item, outs) ==
    LET sku == item.SKU
        peso_j == item.PesoJumbo_g
    IN  IF sku = << >> \/ item.URL = << >> \/ ~Truthy(peso_j) \/ peso_j.n <= 0
        THEN Acumulado(Asignar(ac.dict, sku, PyNone), Sumar(ac.stats, "fallidos"), 0, "")
        ELSE LET f == obtener_precio_mejorado(outs, 1, "")
                 g == f.gets
             IN  IF f.precio = PyNone
                 THEN Acumulado(Asignar(ac.dict, sku, PyNone),
                                Sumar(ac.stats, "fallidos"), g, f.status)
                 ELSE Acumulado(Asignar(ac.dict, sku, precio_por_kg(f.precio, peso_j)),
                                Sumar(ac.stats, "ok"), g, f.status)

\* faulty variant of ProcesarImproved: the unit price and the weight are tried
\* before the per-kg price of the page
ProcesarImprovedUnitarioPrimero(ac, item, outs) ==
    LET sku == item.SKU
        peso_j == item.PesoJumbo_g
    IN  IF sku = << >> THEN Acumulado(ac.dict, ac.stats, 0, "")
        ELSE IF item.URL = << >>
             THEN Acumulado(Asignar(ac.dict, sku, PyNone), Sumar(ac.stats, "fallidos"),
                            0, "")
        ELSE LET f == obtener_precios(outs, 1, "")
                 g == f.gets
                 valor == precio_por_kg(f.unit, peso_j)
             IN  IF f.unit # PyNone /\ Truthy(peso_j)
                 THEN Acumulado(Asignar(ac.dict, sku, valor),
                                IF Truthy(valor) THEN Sumar(ac.stats, "ok")
                                ELSE ac.stats, g, f.status)
                 ELSE IF f.kg # PyNone
                      THEN Acumulado(Asignar(ac.dict, sku, f.kg), Sumar(ac.stats, "ok"),
                                     g, f.status)
                      ELSE Acumulado(Asignar(ac.dict, sku, PyNone),
                                     Sumar(ac.stats, "fallidos"), g, f.status)

\* scraper_improved.py main, lines 534-569
ProcesarImproved(ac, item, outs) ==
    LET sku == item.SKU
        peso_j == item.PesoJumbo_g
    IN  IF sku = << >> THEN Acumulado(ac.dict, ac.stats, 0, "")
        ELSE IF item.URL = << >>
             THEN Acumulado(Asignar(ac.dict, sku, PyNone), Sumar(ac.stats, "fallidos"),
                            0, "")
        ELSE LET f == obtener_precios(outs, 1, "")
                 g == f.gets
                 valor == precio_por_kg(f.unit, peso_j)
             IN  IF f.kg # PyNone
                 THEN Acumulado(Asignar(ac.dict, sku, f.kg), Sumar(ac.stats, "ok"), g,
                                f.status)
                 ELSE IF f.unit # PyNone /\ Truthy(peso_j)
                      THEN Acumulado(Asignar(ac.dict, sku, valor),
                                     IF Truthy(valor) THEN Sumar(ac.stats, "ok")
                                     ELSE ac.stats, g, f.status)
                      ELSE Acumulado(Asignar(ac.dict, sku, PyNone),
                                     Sumar(ac.stats, "fallidos"), g, f.status)

ProcesarItem(s, ac, item, outs) ==
    IF s = "improved" THEN ProcesarImproved(ac, item, outs)
    ELSE ProcesarScraper(ac, item, outs)

-----------------------------------------------------------------------------
(* Inputs *)

SkuA == << "A" >>
Sku7 == << "7" >>
Url == << "u" >>
Fecha == << "0", "5", "-", "1", "1" >>
FechaVieja == << "0", "4", "-", "1", "1" >>

Hoja(filas, rows, cols) ==
    [row_count |-> rows, col_count |-> cols,
     cells |-> [p \in (1..rows) \X (1..cols) |->
                   IF p[1] <= Len(filas) /\ p[2] <= Len(filas[p[1]])
                   THEN filas[p[1]][p[2]] ELSE Blank]]

SeqsHasta(S, n) == UNION {[1..k -> S] : k \in 0..n}

\* a row of "P-web": the SKU in B, a figure in H, the live value in I
FilaPweb(b, i) ==
    [c \in 1..COL_JUMBO_KG_PWEB |->
        IF c = COL_SKU_PWEB THEN b
        ELSE IF c = COL_JUMBO_KG_PWEB THEN i
        ELSE IF c = COL_JUMBO_KG_PWEB - 1 THEN PyInt(1) ELSE Blank]

FilasPweb ==
    {FilaPweb(PyStr(SkuA), PyInt(5)), FilaPweb(PyStr(<< " ", "A" >>), Blank),
     FilaPweb(Blank, PyInt(5)), FilaPweb(PyInt(7), Blank)}

EncabezadosPweb ==
    {FilaPweb(PyStr(<< "S" >>), PyStr(<< "J" >>)), FilaPweb(PyStr(SkuA), PyStr(<< "J" >>))}

HojasPweb ==
    {Hoja(<< e >> \o f, Len(f) + 1, COL_JUMBO_KG_PWEB) :
        e \in EncabezadosPweb, f \in SeqsHasta(FilasPweb, MaxFilas)}

PwebFijo == Hoja(<< FilaPweb(PyStr(<< "S" >>), PyStr(<< "J" >>)),
                    FilaPweb(PyStr(SkuA), PyInt(5)) >>, 2, COL_JUMBO_KG_PWEB)

\* "P-web" with the header row alone
PwebVacio == Hoja(<< FilaPweb(PyStr(<< "S" >>), PyStr(<< "J" >>)) >>, 1,
                  COL_JUMBO_KG_PWEB)

\* a row of "Jumbo": the SKU in B and n populated date cells from column C
FilaHist(b, n) ==
    [c \in 1..(COL_SKU_HIST + n) |->
        IF c = COL_SKU_HIST THEN b ELSE IF c > COL_SKU_HIST THEN PyInt(3) ELSE Blank]

EncabezadoHist(b, n) ==
    [c \in 1..(COL_SKU_HIST + n) |->
        IF c = COL_SKU_HIST THEN b
        ELSE IF c > COL_SKU_HIST THEN PyStr(FechaVieja) ELSE Blank]

FilasHist ==
    {FilaHist(PyStr(SkuA), 0), FilaHist(PyStr(<< " ", "A" >>), 2), FilaHist(Blank, 1)}

\* header rows, each with the spare rows and columns of its grid
EncabezadosHist ==
    {[fila |-> EncabezadoHist(PyStr(<< "S" >>), 0), holgura |-> 1],
     [fila |-> EncabezadoHist(PyStr(<< "S" >>), 1), holgura |-> 0],
     [fila |-> EncabezadoHist(PyStr(<< "S" >>), 3), holgura |-> 1],
     [fila |-> EncabezadoHist(PyStr(Sku7), 1), holgura |-> 1],
     [fila |-> EncabezadoHist(Blank, 0), holgura |-> 0]}

Ancho(filas) == Max({COL_SKU_HIST} \cup {Len(filas[k]) : k \in 1..Len(filas)})

\* the grid is the populated rectangle plus the spare rows and columns
HojasHist ==
    {Hoja(<< e.fila >> \o f, Len(f) + 1 + e.holgura,
          Ancho(<< e.fila >> \o f) + e.holgura) :
        e \in EncabezadosHist, f \in SeqsHasta(FilasHist, MaxFilas)}

HistFijo == Hoja(<< EncabezadoHist(PyStr(<< "S" >>), 1), FilaHist(PyStr(SkuA), 1) >>,
                 2 + MaxProductos, COL_SKU_HIST + 2)

Item(sku, url, peso) == [SKU |-> sku, URL |-> url, PesoJumbo_g |-> peso]

\* rows of "Jumbo-info" as leer_jumbo_info returns them
Items ==
    {Item(SkuA, Url, PyInt(500)), Item(SkuA, Url, PyInt(0)), Item(SkuA, << >>, PyInt(500)),
     Item(<< >>, Url, PyInt(500)), Item(Sku7, Url, PyNone), Item(Sku7, Url, PyInt(0 - 250))}

\* what an attempt of obtener_precios meets: driver.get raises, or the page gives
\* neither figure (SinPrecio), or it gives one (ConPrecio)
SinPrecioImproved ==
    {[t |-> "error", unit |-> PyNone, kg |-> PyNone],
     [t |-> "dom", unit |-> PyNone, kg |-> PyNone]}

ConPrecioImproved ==
    {[t |-> "dom", unit |-> PyInt(7990), kg |-> PyNone],
     [t |-> "dom", unit |-> PyNone, kg |-> PyInt(15000)],
     [t |-> "dom", unit |-> PyInt(7990), kg |-> PyInt(15000)]}

\* what an attempt of obtener_precio_mejorado meets: a timeout, another error, a
\* page on which no strategy finds a price, or one on which a strategy does
SinPrecioScraper ==
    {[t |-> "timeout", metodo |-> "", precio |-> PyNone],
     [t |-> "error", metodo |-> "", precio |-> PyNone],
     [t |-> "pagina", metodo |-> "", precio |-> PyNone]}

ConPrecioScraper ==
    [t : {"pagina"}, metodo : {"javascript", "selectores", "texto_completo"},
     precio : {PyInt(7990)}]

\* the outcomes of the attempts of one fetch: RETRIES + 1 attempts without a
\* price, or fewer of them followed by one with a price, after which no attempt
\* is made
Salidas(s) ==
    LET sin == IF s = "improved" THEN SinPrecioImproved ELSE SinPrecioScraper
        con == IF s = "improved" THEN ConPrecioImproved ELSE ConPrecioScraper
    IN  [1..(RETRIES + 1) -> sin]
            \cup UNION {{f \o << o >> : f \in [1..k -> sin], o \in con} : k \in 0..RETRIES}

\* stats["ok"] and stats["fallidos"]; the per-method counters are only printed
StatsCero == [ok |-> 0, fallidos |-> 0]

ResumenVacio == [impreso |-> FALSE, total |-> 0, con_valor |-> 0, sin_valor |-> 0]

EntornoOk == [SHEET_ID |-> TRUE, GCP_SHEETS_CREDENTIALS |-> TRUE]

\* the sheet "Jumbo" and the column of its last date as an earlier complete
\* run of escribir_jumbo_historico left them; hay is FALSE in the first run
SinPrevia == [hay |-> FALSE, ws |-> << >>, col |-> 0]
Previa(ws, col) == [hay |-> TRUE, ws |-> ws, col |-> col]

\* main calls the helpers from its loop; no call of a helper on its own
SinLlamada ==
    [f |-> "", args |-> << >>, locales |-> << >>, hecho |-> FALSE, res |-> PyNone]

-----------------------------------------------------------------------------
(* main *)

\* state at the start of the program, before the module-level SHEET_ID check
Arranque(s, e, prods, pweb, hist) ==
    /\ script = s
    /\ env = e
    /\ fecha_str = PyStr(Fecha)
    /\ pc = "inicio"
    /\ productos = prods
    /\ idx = 0
    /\ dict_sku_precio_kg_jumbo = << >>
    /\ stats = StatsCero
    /\ builds = 0
    /\ quits = 0
    /\ gets = 0
    /\ status = ""
    /\ pendiente = ""
    /\ actualizado_pweb = FALSE
    /\ actualizado_historico = FALSE
    /\ intentos = << >>
    /\ resumen = ResumenVacio
    /\ ws_pweb = pweb
    /\ ws_hist = hist
    /\ pweb0 = pweb
    /\ hist0 = hist
    /\ staged_pweb = << >>
    /\ new_col_idx = 0
    /\ llamada = SinLlamada
    /\ previa = SinPrevia

Init ==
    \E s \in {"scraper", "improved"}, e \in [SHEET_ID : BOOLEAN, GCP_SHEETS_CREDENTIALS : BOOLEAN],
       prods \in SeqsHasta(Items, MaxProductos) :
        Arranque(s, e, prods, PwebFijo, HistFijo)

Lanzar(exc) == /\ pc' = "raised"
               /\ pendiente' = exc

\* faulty variant of Conectar: only SHEET_ID is checked, a run without
\* GCP_SHEETS_CREDENTIALS goes on
ConectarSinCredenciales ==
    /\ pc = "inicio"
    /\ \E api_ok \in BOOLEAN :
        IF ~env.SHEET_ID THEN Lanzar("RuntimeError")
        ELSE IF ~api_ok THEN Lanzar("Exception")
        ELSE pc' = "leer" /\ UNCHANGED pendiente
    /\ UNCHANGED << script, env, fecha_str, productos, idx, dict_sku_precio_kg_jumbo,
                    stats, builds, quits, gets, status, actualizado_pweb,
                    actualizado_historico, intentos, resumen, ws_pweb, ws_hist,
                    pweb0, hist0, staged_pweb, new_col_idx, llamada, previa >>

\* module import (SHEET_ID check), open_sheet() and the two sh.worksheet() calls
Conectar ==
    /\ pc = "inicio"
    /\ \E api_ok \in BOOLEAN :
        IF ~env.SHEET_ID \/ ~env.GCP_SHEETS_CREDENTIALS THEN Lanzar("RuntimeError")
        ELSE IF ~api_ok THEN Lanzar("Exception")
        ELSE pc' = "leer" /\ UNCHANGED pendiente
    /\ UNCHANGED << script, env, fecha_str, productos, idx, dict_sku_precio_kg_jumbo,
                    stats, builds, quits, gets, status, actualizado_pweb,
                    actualizado_historico, intentos, resumen, ws_pweb, ws_hist,
                    pweb0, hist0, staged_pweb, new_col_idx, llamada, previa >>

\* leer_jumbo_info(sh) and the return on an empty list
Leer ==
    /\ pc = "leer"
    /\ \E api_ok \in BOOLEAN :
        IF ~api_ok THEN Lanzar("Exception")
        ELSE /\ pc' = IF productos = << >> THEN "fin" ELSE "browser"
             /\ UNCHANGED pendiente
    /\ UNCHANGED << script, env, fecha_str, productos, idx, dict_sku_precio_kg_jumbo,
                    stats, builds, quits, gets, status, actualizado_pweb,
                    actualizado_historico, intentos, resumen, ws_pweb, ws_hist,
                    pweb0, hist0, staged_pweb, new_col_idx, llamada, previa >>

\* driver = build_browser()
BuildBrowser ==
    /\ pc = "browser"
    /\ \E ok \in BOOLEAN :
        IF ok THEN pc' = "loop" /\ builds' = builds + 1 /\ UNCHANGED pendiente
        ELSE Lanzar("Exception") /\ UNCHANGED builds
    /\ UNCHANGED << script, env, fecha_str, productos, idx, dict_sku_precio_kg_jumbo,
                    stats, quits, gets, status, actualizado_pweb, actualizado_historico,
                    intentos, resumen, ws_pweb, ws_hist, pweb0, hist0, staged_pweb,
                    new_col_idx, llamada, previa >>

\* faulty variant of ProcesarFila: a fetch without price is not absorbed by the
\* row, its failure leaves the loop as an exception
ProcesarFilaSinCaptura ==
    /\ pc = "loop"
    /\ idx < Len(productos)
    /\ \E outs \in Salidas(script) :
        \E ac \in {ProcesarItem(script,
                                Acumulado(dict_sku_precio_kg_jumbo, stats, gets, status),
                                productos[idx + 1], outs)} :
            /\ dict_sku_precio_kg_jumbo' = ac.dict
            /\ stats' = ac.stats
            /\ gets' = ac.gets
            /\ status' = ac.status
            /\ pc' = IF ac.status \in Fallos THEN "finally" ELSE "loop"
            /\ pendiente' = IF ac.status \in Fallos THEN "Exception" ELSE pendiente
    /\ idx' = idx + 1
    /\ UNCHANGED << script, env, fecha_str, productos, builds, quits,
                    actualizado_pweb, actualizado_historico, intentos, resumen,
                    ws_pweb, ws_hist, pweb0, hist0, staged_pweb, new_col_idx, llamada, previa >>

\* one iteration of `for i, item in enumerate(productos, start=1)`
ProcesarFila ==
    /\ pc = "loop"
    /\ idx < Len(productos)
    /\ \E outs \in Salidas(script) :
        \E ac \in {ProcesarItem(script,
                                Acumulado(dict_sku_precio_kg_jumbo, stats, gets, status),
                                productos[idx + 1], outs)} :
            /\ dict_sku_precio_kg_jumbo' = ac.dict
            /\ stats' = ac.stats
            /\ gets' = ac.gets
            /\ status' = ac.status
    /\ idx' = idx + 1
    /\ UNCHANGED << script, env, fecha_str, pc, productos, builds, quits, pendiente,
                    actualizado_pweb, actualizado_historico, intentos, resumen,
                    ws_pweb, ws_hist, pweb0, hist0, staged_pweb, new_col_idx, llamada, previa >>

\* an exception escapes the loop body (KeyboardInterrupt, or an error outside
\* the handlers of the row): control goes to the finally clause
Interrumpir ==
    /\ pc = "loop"
    /\ pendiente = ""
    /\ \E exc \in {"KeyboardInterrupt", "Exception"} : pendiente' = exc
    /\ pc' = "finally"
    /\ UNCHANGED << script, env, fecha_str, productos, idx, dict_sku_precio_kg_jumbo,
                    stats, builds, quits, gets, status, actualizado_pweb,
                    actualizado_historico, intentos, resumen, ws_pweb, ws_hist,
                    pweb0, hist0, staged_pweb, new_col_idx, llamada, previa >>

\* faulty variant of CerrarNavegador: driver.quit() follows the loop instead of
\* standing in a finally clause, so an exception out of the loop skips it
CerrarSinFinally ==
    /\ \/ pc = "finally"
       \/ pc = "loop" /\ idx = Len(productos)
    /\ quits' = IF pc = "finally" THEN quits ELSE quits + 1
    /\ \E quit_ok \in BOOLEAN :
        LET exc == IF quit_ok \/ pc = "finally" THEN pendiente ELSE "Exception"
        IN  /\ pendiente' = exc
            /\ pc' = IF exc = "" THEN "pweb" ELSE "raised"
    /\ UNCHANGED << script, env, fecha_str, productos, idx, dict_sku_precio_kg_jumbo,
                    stats, builds, gets, status, actualizado_pweb, actualizado_historico,
                    intentos, resumen, ws_pweb, ws_hist, pweb0, hist0, staged_pweb,
                    new_col_idx, llamada, previa >>

\* finally: driver.quit(); then the pending exception propagates, or main goes on
CerrarNavegador ==
    /\ \/ pc = "finally"
       \/ pc = "loop" /\ idx = Len(productos)
    /\ quits' = quits + 1
    /\ \E quit_ok \in BOOLEAN :
        LET exc == IF quit_ok THEN pendiente ELSE "Exception"
        IN  /\ pendiente' = exc
            /\ pc' = IF exc = "" THEN "pweb" ELSE "raised"
    /\ UNCHANGED << script, env, fecha_str, productos, idx, dict_sku_precio_kg_jumbo,
                    stats, builds, gets, status, actualizado_pweb, actualizado_historico,
                    intentos, resumen, ws_pweb, ws_hist, pweb0, hist0, staged_pweb,
                    new_col_idx, llamada, previa >>

\* faulty variant of EscribirPweb: neither script catches the exception
EscribirPwebSinCaptura(F) ==
    /\ pc = "pweb"
    /\ \E falla \in F :
        LET res == escribir_pweb(ws_pweb, dict_sku_precio_kg_jumbo, falla)
        IN  /\ ws_pweb' = res.ws
            /\ staged_pweb' = res.updates
            /\ actualizado_pweb' = res.ok
            /\ IF res.ok THEN pc' = "hist" /\ UNCHANGED pendiente
               ELSE Lanzar("Exception")
    /\ intentos' = Append(intentos, [flujo |-> "pweb", arg |-> dict_sku_precio_kg_jumbo])
    /\ UNCHANGED << script, env, fecha_str, productos, idx, dict_sku_precio_kg_jumbo,
                    stats, builds, quits, gets, status, actualizado_historico, resumen,
                    ws_hist, pweb0, hist0, new_col_idx, llamada, previa >>

\* faulty variant of EscribirPweb: the write comes as soon as the loop is over,
\* with the browser still open
EscribirPwebAntesDeCerrar(F) ==
    /\ pc = "loop" /\ idx = Len(productos)
    /\ \E falla \in F :
        LET res == escribir_pweb(ws_pweb, dict_sku_precio_kg_jumbo, falla)
        IN  /\ ws_pweb' = res.ws
            /\ staged_pweb' = res.updates
            /\ actualizado_pweb' = res.ok
            /\ IF res.ok \/ script = "improved"
               THEN pc' = "hist" /\ UNCHANGED pendiente
               ELSE Lanzar("Exception")
    /\ intentos' = Append(intentos, [flujo |-> "pweb", arg |-> dict_sku_precio_kg_jumbo])
    /\ UNCHANGED << script, env, fecha_str, productos, idx, dict_sku_precio_kg_jumbo,
                    stats, builds, quits, gets, status, actualizado_historico, resumen,
                    ws_hist, pweb0, hist0, new_col_idx, llamada, previa >>

\* escribir_pweb(ws_pweb, dict_sku_precio_kg_jumbo) as main calls it: scraper.py
\* lets its exception propagate, scraper_improved.py catches it and goes on; F
\* holds the API outcomes ("": no error, "leer", "batch")
EscribirPweb(F) ==
    /\ pc = "pweb"
    /\ \E falla \in F :
        LET res == escribir_pweb(ws_pweb, dict_sku_precio_kg_jumbo, falla)
        IN  /\ ws_pweb' = res.ws
            /\ staged_pweb' = res.updates
            /\ actualizado_pweb' = res.ok
            /\ IF res.ok \/ script = "improved"
               THEN pc' = "hist" /\ UNCHANGED pendiente
               ELSE Lanzar("Exception")
    /\ intentos' = Append(intentos, [flujo |-> "pweb", arg |-> dict_sku_precio_kg_jumbo])
    /\ UNCHANGED << script, env, fecha_str, productos, idx, dict_sku_precio_kg_jumbo,
                    stats, builds, quits, gets, status, actualizado_historico, resumen,
                    ws_hist, pweb0, hist0, new_col_idx, llamada, previa >>

\* escribir_jumbo_historico(ws_hist, dict_sku_precio_kg_jumbo, fecha_str) as main
\* calls it, under the API outcomes R
EscribirJumboHistorico(R) ==
    /\ pc = "hist"
    /\ \E o \in R :
        LET res == escribir_jumbo_historico(script, ws_hist, dict_sku_precio_kg_jumbo,
                                            fecha_str, o)
        IN  /\ ws_hist' = res.ws
            /\ new_col_idx' = res.col
            /\ actualizado_historico' = res.ok
            /\ IF res.ok \/ script = "improved"
               THEN pc' = "resumen" /\ UNCHANGED pendiente
               ELSE Lanzar("Exception")
    /\ intentos' = Append(intentos, [flujo |-> "hist", arg |-> dict_sku_precio_kg_jumbo])
    /\ UNCHANGED << script, env, fecha_str, productos, idx, dict_sku_precio_kg_jumbo,
                    stats, builds, quits, gets, status, actualizado_pweb, resumen, ws_pweb,
                    pweb0, hist0, staged_pweb, llamada, previa >>

ConValor(d) == Cardinality({k \in 1..Len(d) : d[k].val # PyNone})

\* faulty variant of Resumen: the RuntimeError is raised only when both flows
\* failed
ResumenSiAmbosFallan ==
    /\ pc = "resumen"
    /\ resumen' = [impreso |-> TRUE, total |-> Len(dict_sku_precio_kg_jumbo),
                   con_valor |-> IF script = "improved"
                                 THEN ConValor(dict_sku_precio_kg_jumbo) ELSE stats.ok,
                   sin_valor |-> IF script = "improved"
                                 THEN Len(dict_sku_precio_kg_jumbo)
                                          - ConValor(dict_sku_precio_kg_jumbo)
                                 ELSE stats.fallidos]
    /\ IF script = "improved" /\ ~actualizado_pweb /\ ~actualizado_historico
       THEN Lanzar("RuntimeError")
       ELSE pc' = "fin" /\ UNCHANGED pendiente
    /\ UNCHANGED << script, env, fecha_str, productos, idx, dict_sku_precio_kg_jumbo,
                    stats, builds, quits, gets, status, actualizado_pweb,
                    actualizado_historico, intentos, ws_pweb, ws_hist, pweb0, hist0,
                    staged_pweb, new_col_idx, llamada, previa >>

\* the final tally, and in scraper_improved.py the RuntimeError when a flow failed
Resumen ==
    /\ pc = "resumen"
    /\ resumen' =
           IF script = "improved"
           THEN [impreso |-> TRUE, total |-> Len(dict_sku_precio_kg_jumbo),
                 con_valor |-> ConValor(dict_sku_precio_kg_jumbo),
                 sin_valor |-> Len(dict_sku_precio_kg_jumbo)
                                   - ConValor(dict_sku_precio_kg_jumbo)]
           ELSE [impreso |-> TRUE, total |-> Len(dict_sku_precio_kg_jumbo),
                 con_valor |-> stats.ok, sin_valor |-> stats.fallidos]
    /\ IF script = "improved" /\ (~actualizado_pweb \/ ~actualizado_historico)
       THEN Lanzar("RuntimeError")
       ELSE pc' = "fin" /\ UNCHANGED pendiente
    /\ UNCHANGED << script, env, fecha_str, productos, idx, dict_sku_precio_kg_jumbo,
                    stats, builds, quits, gets, status, actualizado_pweb,
                    actualizado_historico, intentos, ws_pweb, ws_hist, pweb0, hist0,
                    staged_pweb, new_col_idx, llamada, previa >>

Next ==
    \/ Conectar
    \/ Leer
    \/ BuildBrowser
    \/ ProcesarFila
    \/ Interrumpir
    \/ CerrarNavegador
    \/ EscribirPweb({"", "batch"})
    \/ EscribirJumboHistorico(ResultadosBasicos)
    \/ Resumen

Spec == Init /\ [][Next]_vars

-----------------------------------------------------------------------------
(* The write flows on their own: main after the row loop and driver.quit() *)

\* the loop of main run over the rows of esc, each with its fetch outcomes
RECURSIVE Recorrer(_, _, _)
Recorrer(s, ac, esc) ==
    IF esc = << >> THEN ac
    ELSE Recorrer(s, ProcesarItem(s, ac, Head(esc).item, Head(esc).outs), Tail(esc))

SiempreIgual(o) == [k \in 1..(RETRIES + 1) |-> o]

\* a row with a weight of 500 g whose fetch finds 7990 at once, or never finds
\* a price
Escenario(s, sku, exito) ==
    [item |-> Item(sku, Url, PyInt(500)),
     outs |-> IF s = "improved"
              THEN SiempreIgual([t |-> "dom", unit |-> IF exito THEN PyInt(7990) ELSE PyNone,
                                 kg |-> PyNone])
              ELSE SiempreIgual([t |-> "pagina", metodo |-> IF exito THEN "javascript" ELSE "",
                                 precio |-> IF exito THEN PyInt(7990) ELSE PyNone])]

\* scraper_improved.py skips a row without SKU; scraper.py records it under ""
Escenarios(s) ==
    {Escenario(s, sku, exito) : sku \in {SkuA, Sku7}, exito \in BOOLEAN}
        \cup (IF s = "scraper" THEN {Escenario(s, << >>, FALSE)} ELSE {})

\* input sheets in which every identifier has one row, a row without SKU last
ListasDeEscenarios(s) ==
    {esc \in SeqsHasta(Escenarios(s), MaxProductos) :
        /\ esc # << >>
        /\ \A j, k \in 1..Len(esc) : j # k => esc[j].item.SKU # esc[k].item.SKU
        /\ \A k \in 1..(Len(esc) - 1) : esc[k].item.SKU # << >>}

\* main at line 762 (scraper.py) / 581 (scraper_improved.py): the rows of esc
\* processed, the browser closed
TrasElBucle(s, esc, pweb, hist) ==
    \E ac \in {Recorrer(s, Acumulado(<< >>, StatsCero, 0, ""), esc)} :
        /\ script = s
        /\ env = EntornoOk
        /\ fecha_str = PyStr(Fecha)
        /\ pc = "pweb"
        /\ productos = [k \in 1..Len(esc) |-> esc[k].item]
        /\ idx = Len(esc)
        /\ dict_sku_precio_kg_jumbo = ac.dict
        /\ stats = ac.stats
        /\ builds = 1
        /\ quits = 1
        /\ gets = ac.gets
        /\ status = ac.status
        /\ pendiente = ""
        /\ actualizado_pweb = FALSE
        /\ actualizado_historico = FALSE
        /\ intentos = << >>
        /\ resumen = ResumenVacio
        /\ ws_pweb = pweb
        /\ ws_hist = hist
        /\ pweb0 = pweb
        /\ hist0 = hist
        /\ staged_pweb = << >>
        /\ new_col_idx = 0
        /\ llamada = SinLlamada
        /\ previa = SinPrevia

InitPweb ==
    \E s \in {"scraper", "improved"}, pweb \in HojasPweb :
        \E esc \in ListasDeEscenarios(s) : TrasElBucle(s, esc, pweb, HistFijo)

NextPweb == EscribirPweb({"", "leer", "batch"})

SpecPweb == InitPweb /\ [][NextPweb]_vars

InitHist ==
    \E s \in {"scraper", "improved"}, hist \in HojasHist :
        \E esc \in ListasDeEscenarios(s) : TrasElBucle(s, esc, PwebVacio, hist)

NextHist ==
    \/ EscribirPweb({""})
    \/ EscribirJumboHistorico(ResultadosApi(script))

SpecHist == InitHist /\ [][NextHist]_vars

\* the results of a later run of the day: the same, or with one more identifier
OtrosResultados(d) == {d, Asignar(d, << "Z" >>, PyInt(15980))}

\* a second run on the same day: escribir_jumbo_historico once more, with the
\* same fecha_str, on the sheet a complete first run left, under the API
\* outcomes R
OtraCorrida(R) ==
    /\ pc = "resumen"
    /\ actualizado_historico
    /\ ~previa.hay
    /\ \E o \in R, d \in OtrosResultados(dict_sku_precio_kg_jumbo) :
        LET res == escribir_jumbo_historico(script, ws_hist, d, fecha_str, o)
        IN  /\ previa' = Previa(ws_hist, new_col_idx)
            /\ ws_hist' = res.ws
            /\ new_col_idx' = res.col
            /\ actualizado_historico' = res.ok
            /\ dict_sku_precio_kg_jumbo' = d
            /\ intentos' = Append(intentos, [flujo |-> "hist", arg |-> d])
            /\ IF res.ok \/ script = "improved"
               THEN pc' = "resumen" /\ UNCHANGED pendiente
               ELSE Lanzar("Exception")
    /\ UNCHANGED << script, env, fecha_str, productos, idx, stats, builds, quits, gets,
                    status, actualizado_pweb, resumen, ws_pweb, pweb0, hist0, staged_pweb,
                    llamada >>

NextDosCorridas ==
    \/ EscribirPweb({""})
    \/ EscribirJumboHistorico(ResultadosApi(script))
    \/ OtraCorrida(ResultadosApi(script))

SpecDosCorridas == InitHist /\ [][NextDosCorridas]_vars

-----------------------------------------------------------------------------
(* Price texts: scraper_improved.py, "Utilidades de precio" *)

\* str.lower() on the letters the texts are written with
MAYUSCULAS ==
    << "A", "B", "C", "D", "E", "F", "G", "H", "I", "J", "K", "L", "M", "N",
       "O", "P", "Q", "R", "S", "T", "U", "V", "W", "X", "Y", "Z", "Í" >>

MINUSCULAS ==
    << "a", "b", "c", "d", "e", "f", "g", "h", "i", "j", "k", "l", "m", "n",
       "o", "p", "q", "r", "s", "t", "u", "v", "w", "x", "y", "z", "í" >>

LowerChar(c) ==
    IF \E i \in 1..Len(MAYUSCULAS) : MAYUSCULAS[i] = c
    THEN MINUSCULAS[CHOOSE i \in 1..Len(MAYUSCULAS) : MAYUSCULAS[i] = c]
    ELSE c

lower(x) == [i \in 1..Len(x) |-> LowerChar(x[i])]

\* `sub in t`
Contiene(t, sub) ==
    \E i \in 1..(Len(t) - Len(sub) + 1) : SubSeq(t, i, i + Len(sub) - 1) = sub

\* t.startswith(pre)
startswith(t, pre) == Len(t) >= Len(pre) /\ SubSeq(t, 1, Len(pre)) = pre

\* " ".join(str(texto).split()).strip(): runs of whitespace become one space,
\* none is left at either end
RECURSIVE Unir(_)
Unir(x) ==
    IF Len(x) <= 1 THEN x
    ELSE IF IsSpace(x[1]) /\ IsSpace(x[2]) THEN Unir(Tail(x))
    ELSE << x[1] >> \o Unir(Tail(x))

normaliza(texto) == Strip(Unir(texto))

EsDigito(c) == \E i \in 1..Len(Digitos) : Digitos[i] = c

\* the character classes [\d\.] and [\d\.,]
DigitoPunto(c) == EsDigito(c) \/ c = "."
DigitoPuntoComa(c) == EsDigito(c) \/ c = "." \/ c = ","

\* \s* from position i: the position of the first character that is no space
SaltarEspacios(t, i) ==
    CHOOSE j \in i..(Len(t) + 1) :
        /\ \A k \in i..(j - 1) : IsSpace(t[k])
        /\ j = Len(t) + 1 \/ ~IsSpace(t[j])

\* the result of rx.search: whether there is a match, and its group 1
SinMatch == [hay |-> FALSE, grupo |-> << >>]
Match(g) == [hay |-> TRUE, grupo |-> g]

\* PRECIO_REGEXES: prefix, \s*, ([\d\.]+); the leftmost match, with the longest
\* group. The prefix is "$", or "CLP" in any letter case (re.IGNORECASE).
InicioPrecio(t, prefijo, i) ==
    /\ i + Len(prefijo) - 1 <= Len(t)
    /\ lower(SubSeq(t, i, i + Len(prefijo) - 1)) = prefijo
    /\ LET j == SaltarEspacios(t, i + Len(prefijo))
       IN  j <= Len(t) /\ DigitoPunto(t[j])

BuscarPrecio(t, prefijo) ==
    LET inicios == {i \in 1..Len(t) : InicioPrecio(t, prefijo, i)}
    IN  IF inicios = {} THEN SinMatch
        ELSE LET i == CHOOSE a \in inicios : \A b \in inicios : a <= b
                 j == SaltarEspacios(t, i + Len(prefijo))
                 k == CHOOSE z \in j..Len(t) :
                          /\ \A y \in j..z : DigitoPunto(t[y])
                          /\ z = Len(t) \/ ~DigitoPunto(t[z + 1])
             IN  Match(SubSeq(t, j, k))

PRECIO_REGEXES == << << "$" >>, << "c", "l", "p" >> >>

\* x.replace(".", "").replace(",", "")
NoEsSeparador(c) == c # "." /\ c # ","
SinSeparadores(x) == SelectSeq(x, NoEsSeparador)

\* str.isdigit() and int(str) of a string of digits
isdigit(x) == x # << >> /\ \A i \in 1..Len(x) : EsDigito(x[i])

RECURSIVE int(_)
int(x) ==
    IF x = << >> THEN 0
    ELSE 10 * int(SubSeq(x, 1, Len(x) - 1))
         + (CHOOSE d \in 0..9 : Digitos[d + 1] = x[Len(x)])

\* extraer_precio: the first regex that matches with a group of digits gives
\* the price; a regex that matches with a group that is no number is passed over
RECURSIVE ExtraerDesde(_, _)
ExtraerDesde(t, n) ==
    IF n > Len(PRECIO_REGEXES) THEN PyNone
    ELSE LET m == BuscarPrecio(t, PRECIO_REGEXES[n])
             bruto == SinSeparadores(m.grupo)
         IN  IF m.hay /\ isdigit(bruto) THEN PyInt(int(bruto))
             ELSE ExtraerDesde(t, n + 1)

extraer_precio(texto) == ExtraerDesde(Strip(texto), 1)

PALABRAS_EXCLUIR ==
    { << "p", "r", "i", "m", "e" >>,
      << "p", "a", "g", "a" >>,
      << "a", "n", "t", "e", "s" >>,
      << "s", "u", "s", "c", "r", "í", "b", "e", "t", "e" >>,
      << "s", "u", "s", "c", "r", "i", "b", "e", "t", "e" >> }

\* the prefixes of the startswith test
PrefijosExcluidos ==
    { << "a", "n", "t", "e", "s" >>,
      << "n", "o", "r", "m", "a", "l" >>,
      << "p", "r", "e", "c", "i", "o", " ", "n", "o", "r", "m", "a", "l" >> }

\* es_precio_valido without the call of lower()
EsPrecioValidoSinLower(txt) ==
    IF ~(Contiene(txt, << "$" >>) \/ Contiene(txt, << "c", "l", "p" >>)) THEN FALSE
    ELSE IF \E p \in PALABRAS_EXCLUIR : Contiene(txt, p) THEN FALSE
    ELSE IF \E p \in PrefijosExcluidos : startswith(txt, p) THEN FALSE
    ELSE TRUE

es_precio_valido(txt) ==
    LET t == lower(txt)
    IN  IF ~(Contiene(t, << "$" >>) \/ Contiene(t, << "c", "l", "p" >>)) THEN FALSE
        ELSE IF \E p \in PALABRAS_EXCLUIR : Contiene(t, p) THEN FALSE
        ELSE IF \E p \in PrefijosExcluidos : startswith(t, p) THEN FALSE
        ELSE TRUE

\* PRECIO_POR_KG_REGEX matched from position i: \$?, \s*, ([\d\.,]+), \s*,
\* x or /, \s*, kg; letters in any case
KgDesde(t, i) ==
    LET a == IF i <= Len(t) /\ t[i] = "$" THEN i + 1 ELSE i
        j == SaltarEspacios(t, a)
    IN  IF ~(j <= Len(t) /\ DigitoPuntoComa(t[j])) THEN SinMatch
        ELSE LET k == CHOOSE z \in j..Len(t) :
                          /\ \A y \in j..z : DigitoPuntoComa(t[y])
                          /\ z = Len(t) \/ ~DigitoPuntoComa(t[z + 1])
                 u == SaltarEspacios(t, k + 1)
             IN  IF ~(u <= Len(t) /\ lower(<< t[u] >>) \in {<< "x" >>, << "/" >>})
                 THEN SinMatch
                 ELSE LET v == SaltarEspacios(t, u + 1)
                      IN  IF v + 1 <= Len(t) /\ lower(SubSeq(t, v, v + 1)) = << "k", "g" >>
                          THEN Match(SubSeq(t, j, k))
                          ELSE SinMatch

BuscarPrecioPorKg(t) ==
    LET inicios == {i \in 1..Len(t) : KgDesde(t, i).hay}
    IN  IF inicios = {} THEN SinMatch
        ELSE KgDesde(t, CHOOSE a \in inicios : \A b \in inicios : a <= b)

extraer_precio_por_kg(texto) ==
    LET m == BuscarPrecioPorKg(texto)
        valor == SinSeparadores(m.grupo)
    IN  IF m.hay /\ isdigit(valor) THEN PyInt(int(valor)) ELSE PyNone

\* what the loop of encontrar_precios_en_dom holds: the two prices, the
\* position in textos of the text the unit price was taken from (0: none), and
\* whether the loop has met its break
Hallado(u, k, f, fin) == [unit |-> u, kg |-> k, fuente |-> f, fin |-> fin]

\* faulty variant of the pass: a later text replaces the prices already found
PasoDomUltimo(h, t, i) ==
    LET pk == extraer_precio_por_kg(t)
        kg == IF pk # PyNone /\ pk.n > 0 THEN pk ELSE h.kg
        p == extraer_precio(t)
        toma == es_precio_valido(t) /\ p # PyNone /\ p.n > 0
        unit == IF toma THEN p ELSE h.unit
    IN  Hallado(unit, kg, IF toma THEN i ELSE h.fuente, FALSE)

\* one pass of `for t in textos`
PasoDom(h, t, i) ==
    LET pk == extraer_precio_por_kg(t)
        kg == IF h.kg = PyNone /\ pk # PyNone /\ pk.n > 0 THEN pk ELSE h.kg
        p == extraer_precio(t)
        toma == h.unit = PyNone /\ es_precio_valido(t) /\ p # PyNone /\ p.n > 0
        unit == IF toma THEN p ELSE h.unit
    IN  Hallado(unit, kg, IF toma THEN i ELSE h.fuente, unit # PyNone /\ kg # PyNone)

RECURSIVE BucleDom(_, _, _)
BucleDom(h, textos, i) ==
    IF i > Len(textos) \/ h.fin THEN h
    ELSE BucleDom(PasoDom(h, textos[i], i), textos, i + 1)

\* the texts gathered from the elements of the page: normalised, the empty
\* ones left out
NoVacio(x) == x # << >>
Textos(elementos) == SelectSeq([i \in 1..Len(elementos) |-> normaliza(elementos[i])], NoVacio)

\* encontrar_precios_en_dom over the texts of the elements the selectors find,
\* in the order they are found
encontrar_precios_en_dom(elementos) ==
    BucleDom(Hallado(PyNone, PyNone, 0, FALSE), Textos(elementos), 1)

-----------------------------------------------------------------------------
(* The helpers on their own: one call, from its arguments to its result *)

\* a call: the function, its arguments, its local variables where the call
\* is followed step by step, whether it has returned, and what it returned
Llamada(f, args) ==
    [f |-> f, args |-> args, locales |-> << >>, hecho |-> FALSE, res |-> PyNone]

\* prices and weights precio_por_kg is called with
PreciosCalc ==
    {PyNone} \cup {PyInt(k) : k \in {0, 1, 990, 1610, 3230, 6470, 6490, 7990}}

PesosCalc ==
    {PyNone, NaN, Inf, Infimo}
        \cup {PyInt(k) : k \in {0 - 250, 0, 1, 3, 80, 500, 800, 1000, 3000}}

LlamadasPrecioPorKg ==
    {Llamada("precio_por_kg", << p, w >>) : p \in PreciosCalc, w \in PesosCalc}

\* the pieces the texts es_precio_valido is called with are made of
Piezas ==
    { << "$", " ", "7", ".", "9", "9", "0" >>,
      << "C", "L", "P", " ", "1", ".", "2", "9", "0" >>,
      << "c", "l", "p" >>,
      << "$" >>,
      << " " >>,
      << "9", "9", "0" >>,
      << "P", "r", "i", "m", "e" >>,
      << "P", "A", "G", "A" >>,
      << "A", "n", "t", "e", "s" >>,
      << "S", "U", "S", "C", "R", "Í", "B", "E", "T", "E" >>,
      << "S", "u", "s", "c", "r", "i", "b", "e", "t", "e" >>,
      << "N", "o", "r", "m", "a", "l" >>,
      << "N", "O", "R", "M", "A", "L" >>,
      << "p", "r", "i", "m", "e" >>,
      << "/", "k", "g" >>,
      << "O", "f", "e", "r", "t", "a" >> }

MaxPiezas == 3

RECURSIVE Fragmentos(_)
Fragmentos(n) ==
    IF n = 0 THEN {<< >>}
    ELSE Fragmentos(n - 1) \cup {f \o p : f \in Fragmentos(n - 1), p \in Piezas}

LlamadasEsPrecioValido ==
    {Llamada("es_precio_valido", << txt >>) : txt \in Fragmentos(MaxPiezas)}

\* the texts of the elements of a page
Elementos ==
    { << "$", " ", "7", ".", "9", "9", "0" >>,
      << "P", "r", "i", "m", "e", " ", "$", " ", "7", ".", "9", "9", "0" >>,
      << "C", "L", "P", " ", "1", ".", "2", "9", "0" >>,
      << "P", "A", "G", "A", " ", "c", "l", "p", " ", "9", "9", "0" >>,
      << "N", "o", "r", "m", "a", "l", " ", "$", " ", "9", "9", "0" >>,
      << "9", "9", "0" >>,
      << "$", " ", "1", ".", "2", "9", "0", "/", "k", "g" >>,
      << " ", " " >>,
      << "O", "f", "e", "r", "t", "a" >>,
      << "A", "n", "t", "e", "s", " ", "$", " ", "7", ".", "9", "9", "0" >>,
      << "9", "9", "0", " ", "x", " ", "k", "g" >> }

MaxTextos == 2

LlamadasEncontrarPrecios ==
    {Llamada("encontrar_precios_en_dom", << els >>) : els \in SeqsHasta(Elementos, MaxTextos)}

\* the pieces the texts extraer_precio is called with are made of; the digits
\* are few, so that the prices stay within the integers of the checker
PiezasPrecio ==
    { << "$", " ", "7", ".", "9" >>,
      << "C", "L", "P", " ", "1", ".", "2" >>,
      << "$" >>,
      << "c", "l", "p" >>,
      << "." >>,
      << ".", " " >>,
      << " " >>,
      << "9" >> }

RECURSIVE FragmentosPrecio(_)
FragmentosPrecio(n) ==
    IF n = 0 THEN {<< >>}
    ELSE FragmentosPrecio(n - 1)
             \cup {f \o p : f \in FragmentosPrecio(n - 1), p \in PiezasPrecio}

LlamadasExtraerPrecio ==
    {Llamada("extraer_precio", << texto >>) : texto \in FragmentosPrecio(MaxPiezas)}

\* the staged writes of a date column of n rows, as step 6 of
\* escribir_jumbo_historico builds them
MaxStaged == 101

Staged(n) ==
    [k \in 1..n |-> [range |-> A1(col_idx_to_letter(COL_FECHAS_INICIA_EN), k + 1),
                     values |-> IF k % 3 = 0 THEN PyStr(<< >>) ELSE PyInt(k)]]

LlamadasLotes == {Llamada("lotes", << Staged(n) >>) : n \in 0..MaxStaged}

Llamadas ==
    LlamadasPrecioPorKg \cup LlamadasEsPrecioValido \cup LlamadasEncontrarPrecios
        \cup LlamadasExtraerPrecio \cup LlamadasLotes

\* main is not running: no step of it is possible
Reposo ==
    /\ script = "improved"
    /\ env = EntornoOk
    /\ fecha_str = PyStr(Fecha)
    /\ pc = "reposo"
    /\ productos = << >>
    /\ idx = 0
    /\ dict_sku_precio_kg_jumbo = << >>
    /\ stats = StatsCero
    /\ builds = 0
    /\ quits = 0
    /\ gets = 0
    /\ status = ""
    /\ pendiente = ""
    /\ actualizado_pweb = FALSE
    /\ actualizado_historico = FALSE
    /\ intentos = << >>
    /\ resumen = ResumenVacio
    /\ ws_pweb = PwebVacio
    /\ ws_hist = HistFijo
    /\ pweb0 = PwebVacio
    /\ hist0 = HistFijo
    /\ staged_pweb = << >>
    /\ new_col_idx = 0
    /\ previa = SinPrevia

InitCalc == Reposo /\ llamada \in Llamadas

\* the pending call of f returns v
Devuelve(f, v) ==
    /\ llamada.f = f
    /\ ~llamada.hecho
    /\ llamada' = [llamada EXCEPT !.hecho = TRUE, !.res = v]
    /\ UNCHANGED << script, env, fecha_str, pc, productos, idx, dict_sku_precio_kg_jumbo,
                    stats, builds, quits, gets, status, pendiente, actualizado_pweb,
                    actualizado_historico, intentos, resumen, ws_pweb, ws_hist,
                    pweb0, hist0, staged_pweb, new_col_idx, previa >>

LlamarPrecioPorKg ==
    Devuelve("precio_por_kg", precio_por_kg(llamada.args[1], llamada.args[2]))

LlamarEsPrecioValido ==
    Devuelve("es_precio_valido", es_precio_valido(llamada.args[1]))

LlamarEncontrarPrecios ==
    Devuelve("encontrar_precios_en_dom", encontrar_precios_en_dom(llamada.args[1]))

LlamarExtraerPrecio ==
    Devuelve("extraer_precio", extraer_precio(llamada.args[1]))

\* the batches the flush of escribir_jumbo_historico passes to batch_update
LlamarLotes ==
    Devuelve("lotes",
             IF llamada.args[1] = << >> THEN << >> ELSE Lotes(llamada.args[1], batch_size))

NextCalc ==
    \/ LlamarPrecioPorKg
    \/ LlamarEsPrecioValido
    \/ LlamarEncontrarPrecios
    \/ LlamarExtraerPrecio
    \/ LlamarLotes

SpecCalc == InitCalc /\ [][NextCalc]_vars

-----------------------------------------------------------------------------
(* One row of the loop of scraper_improved.py main on its own: the results so
   far, the row, and what the attempts of its fetch meet *)

\* the results the earlier rows left
ResultadosPrevios ==
    {<< >>, Asignar(<< >>, SkuA, PyInt(990)), Asignar(<< >>, Sku7, PyNone),
     Asignar(Asignar(<< >>, SkuA, PyNone), Sku7, PyInt(15000))}

\* rows of "Jumbo-info": those of Items, and weights to_num reads from the
\* cells "nan" and "5e-324"
ItemsFila == Items \cup {Item(Sku7, Url, NaN), Item(SkuA, Url, Infimo)}

LlamadasFila ==
    {Llamada("fila", << d, item, outs >>) :
        d \in ResultadosPrevios, item \in ItemsFila, outs \in Salidas("improved")}

InitFila == Reposo /\ llamada \in LlamadasFila

\* the body of the loop runs on the row: what it leaves in
\* dict_sku_precio_kg_jumbo
ProcesarUnaFila ==
    Devuelve("fila",
             ProcesarImproved(Acumulado(llamada.args[1], StatsCero, 0, ""),
                              llamada.args[2], llamada.args[3]).dict)

NextFila == ProcesarUnaFila

SpecFila == InitFila /\ [][NextFila]_vars

-----------------------------------------------------------------------------
(* The fetch step on its own, one attempt at a time *)

\* the locals of the fetch functions: the loop variable, last_err, and the
\* number of calls of driver.get so far
Locales(i, e, g) == [intento |-> i, last_err |-> e, gets |-> g]

\* what one step of the loop leaves: the function has returned res, or it goes
\* on with new locals
Retorna(res) == [hecho |-> TRUE, res |-> res, locales |-> << >>]
Sigue(l) == [hecho |-> FALSE, res |-> PyNone, locales |-> l]

\* obtener_precios faulty variant: the attempt with a price does not return
IntentoObtenerPreciosSinReturn(l, outs) ==
    IF l.intento > RETRIES + 1
    THEN Retorna([unit |-> PyNone, kg |-> PyNone,
                  status |-> IF l.last_err = "" THEN "desconocido" ELSE l.last_err,
                  gets |-> l.gets])
    ELSE IF outs[l.intento].t = "error"
         THEN Sigue(Locales(l.intento + 1, "error_navegacion", l.gets + 1))
         ELSE Sigue(Locales(l.intento + 1, "precio_no_encontrado", l.gets + 1))

\* scraper_improved.py obtener_precios: one pass of `for intento in range(1,
\* retries + 2)` over the outcome of that attempt, or the return after the loop
IntentoObtenerPrecios(l, outs) ==
    IF l.intento > RETRIES + 1
    THEN Retorna([unit |-> PyNone, kg |-> PyNone,
                  status |-> IF l.last_err = "" THEN "desconocido" ELSE l.last_err,
                  gets |-> l.gets])
    ELSE LET o == outs[l.intento]
         IN  IF o.t = "error"
             THEN Sigue(Locales(l.intento + 1, "error_navegacion", l.gets + 1))
             ELSE IF (Truthy(o.unit) /\ o.unit.n > 0) \/ (Truthy(o.kg) /\ o.kg.n > 0)
                  THEN Retorna([unit |-> o.unit, kg |-> o.kg, status |-> "ok",
                                gets |-> l.gets + 1])
                  ELSE Sigue(Locales(l.intento + 1, "precio_no_encontrado", l.gets + 1))

\* scraper.py obtener_precio_mejorado: one pass of its loop, or the return
\* after the loop
IntentoObtenerPrecioMejorado(l, outs) ==
    IF l.intento > RETRIES + 1
    THEN Retorna([precio |-> PyNone, status |-> l.last_err, gets |-> l.gets])
    ELSE LET o == outs[l.intento]
         IN  IF o.t = "timeout"
             THEN Sigue(Locales(l.intento + 1, "timeout", l.gets + 1))
             ELSE IF o.t = "error"
                  THEN Sigue(Locales(l.intento + 1, "error", l.gets + 1))
             ELSE IF Truthy(o.precio) /\ o.precio.n > 0
                  THEN Retorna([precio |-> o.precio, status |-> o.metodo,
                                gets |-> l.gets + 1])
                  ELSE Sigue(Locales(l.intento + 1, "precio_no_encontrado", l.gets + 1))

\* "for any sequence of per-attempt outcomes": RETRIES + 1 outcomes of any kind
SalidasCompletas(s) ==
    IF s = "improved" THEN [1..(RETRIES + 1) -> SinPrecioImproved \cup ConPrecioImproved]
    ELSE [1..(RETRIES + 1) -> SinPrecioScraper \cup ConPrecioScraper]

\* a call of a fetch function at its first statement, last_err = ""
LlamadaFetch(f, outs) == [Llamada(f, << outs >>) EXCEPT !.locales = Locales(1, "", 0)]

LlamadasFetch ==
    {LlamadaFetch("obtener_precios", outs) : outs \in SalidasCompletas("improved")}
        \cup {LlamadaFetch("obtener_precio_mejorado", outs) :
                  outs \in SalidasCompletas("scraper")}

InitFetch == Reposo /\ llamada \in LlamadasFetch

\* the running call of f takes the step that leaves r
Avanza(f, r) ==
    /\ llamada.f = f
    /\ ~llamada.hecho
    /\ llamada' = [llamada EXCEPT !.hecho = r.hecho, !.res = r.res, !.locales = r.locales]
    /\ UNCHANGED << script, env, fecha_str, pc, productos, idx, dict_sku_precio_kg_jumbo,
                    stats, builds, quits, gets, status, pendiente, actualizado_pweb,
                    actualizado_historico, intentos, resumen, ws_pweb, ws_hist,
                    pweb0, hist0, staged_pweb, new_col_idx, previa >>

IntentarObtenerPrecios ==
    Avanza("obtener_precios", IntentoObtenerPrecios(llamada.locales, llamada.args[1]))

IntentarObtenerPrecioMejorado ==
    Avanza("obtener_precio_mejorado",
           IntentoObtenerPrecioMejorado(llamada.locales, llamada.args[1]))

NextFetch ==
    \/ IntentarObtenerPrecios
    \/ IntentarObtenerPrecioMejorado

SpecFetch == InitFetch /\ [][NextFetch]_vars

\* the loop of a fetch function goes on as long as it has a step to take: each
\* of its waits is bounded (page load timeout, WebDriverWait, time.sleep)
SpecFetchJusto == SpecFetch /\ WF_vars(NextFetch)

-----------------------------------------------------------------------------
(* Properties of the live-column flow, checked under SpecPweb *)

\* the text of the identifier cell of row r, as mapear_sku_a_fila compares it
Identificador(ws, r, col) == Strip(Formatted(GetCell(ws, r, col)))

\* the rows of ws, header included, whose identifier cell reads sku
FilasDelSku(ws, sku, col) == {r \in 1..ws.row_count : Identificador(ws, r, col) = sku}

\* row(id): the last data row whose identifier cell reads sku, 0 when none does
FilaDelSku(ws, sku, col) ==
    Max({0} \cup {r \in 2..ws.row_count : sku # << >> /\ Identificador(ws, r, col) = sku})

\* the cells the staged updates of escribir_pweb name
CeldasPreparadas ==
    {<< staged_pweb[k].range.row, A1Col(staged_pweb[k].range.letters) >> :
        k \in 1..Len(staged_pweb)}

\* the cells of "P-web" that differ from what they held when the run started
CeldasCambiadasPweb ==
    {p \in Celdas(ws_pweb) : GetCell(ws_pweb, p[1], p[2]) # GetCell(pweb0, p[1], p[2])}

\* C1: for every identifier whose result is None (or the empty string), no
\* write is staged for any row carrying that identifier, and the column-I cell
\* of every such row holds what it held before the run, whatever the results of
\* the other identifiers and whatever the outcome of the API calls.
C1_NoneKeepsCell ==
    \A k \in 1..Len(dict_sku_precio_kg_jumbo) :
        LET e == dict_sku_precio_kg_jumbo[k]
        IN  (e.val = PyNone \/ e.val = PyStr(<< >>)) =>
                \A r \in FilasDelSku(pweb0, e.sku, COL_SKU_PWEB) :
                    /\ \A c \in 1..ws_pweb.col_count : << r, c >> \notin CeldasPreparadas
                    /\ GetCell(ws_pweb, r, COL_JUMBO_KG_PWEB)
                           = GetCell(pweb0, r, COL_JUMBO_KG_PWEB)

\* C1 witness: escribir_pweb returned normally after writing another
\* identifier's cell, and an identifier without result has a row whose column-I
\* cell was populated before the run.
C1_Witness ==
    /\ Len(intentos) = 1
    /\ actualizado_pweb
    /\ CeldasCambiadasPweb # {}
    /\ \E k \in 1..Len(dict_sku_precio_kg_jumbo) :
        /\ dict_sku_precio_kg_jumbo[k].val = PyNone
        /\ FilaDelSku(pweb0, dict_sku_precio_kg_jumbo[k].sku, COL_SKU_PWEB) > 1
        /\ GetCell(pweb0, FilaDelSku(pweb0, dict_sku_precio_kg_jumbo[k].sku, COL_SKU_PWEB),
                   COL_JUMBO_KG_PWEB) # Blank

\* the cells C2 expects: column I of row(id) for every identifier with a result
\* and a data row
CeldasEsperadasPweb ==
    {<< FilaDelSku(pweb0, dict_sku_precio_kg_jumbo[k].sku, COL_SKU_PWEB), A1Col(<< "I" >>) >> :
        k \in {j \in 1..Len(dict_sku_precio_kg_jumbo) :
                  /\ dict_sku_precio_kg_jumbo[j].val # PyNone
                  /\ FilaDelSku(pweb0, dict_sku_precio_kg_jumbo[j].sku, COL_SKU_PWEB) > 1}}

\* C2: whatever the API does, escribir_pweb changes no cell outside the expected
\* set (column I of row(id), id with a non-None result and a data row), names no
\* other cell in its updates and leaves the grid of "P-web" as it was (no row,
\* no column created); when it returns normally the updates it sent name exactly
\* the expected cells, and each of them holds the identifier's result.
C2_ExactCells ==
    /\ CeldasPreparadas \subseteq CeldasEsperadasPweb
    /\ CeldasCambiadasPweb \subseteq CeldasEsperadasPweb
    /\ ws_pweb.row_count = pweb0.row_count
    /\ ws_pweb.col_count = pweb0.col_count
    /\ (Len(intentos) >= 1 /\ actualizado_pweb) =>
           /\ CeldasPreparadas = CeldasEsperadasPweb
           /\ \A k \in 1..Len(dict_sku_precio_kg_jumbo) :
                  LET e == dict_sku_precio_kg_jumbo[k]
                      r == FilaDelSku(pweb0, e.sku, COL_SKU_PWEB)
                  IN  (e.val # PyNone /\ r > 1) =>
                          GetCell(ws_pweb, r, COL_JUMBO_KG_PWEB) = e.val

\* C2 witness: escribir_pweb returned normally, wrote a cell, and one identifier
\* with a result has no data row in "P-web".
C2_Witness ==
    /\ Len(intentos) = 1
    /\ actualizado_pweb
    /\ CeldasPreparadas # {}
    /\ \E k \in 1..Len(dict_sku_precio_kg_jumbo) :
        /\ dict_sku_precio_kg_jumbo[k].val # PyNone
        /\ FilaDelSku(pweb0, dict_sku_precio_kg_jumbo[k].sku, COL_SKU_PWEB) = 0

-----------------------------------------------------------------------------
(* Properties of the historical flow, checked under SpecHist *)

\* the data rows of ws whose identifier cell reads sku
FilasDeDatos(ws, sku) ==
    {r \in 2..ws.row_count : Identificador(ws, r, COL_SKU_HIST) = sku}

\* the non-empty identifiers of the result mapping
Identificadores == Claves(dict_sku_precio_kg_jumbo) \ {<< >>}

\* the identifiers of the result mapping without a data row before the run
SinFilaAntes == {sku \in Identificadores : FilasDeDatos(hist0, sku) = {}}

\* C3: after escribir_jumbo_historico returned normally, the header cell of the
\* chosen column holds the run's date, every non-empty identifier of the result
\* mapping has a data row, and the cell of its row (the last one carrying it) in
\* the chosen column holds its result, or a blank when the result is None; rows
\* appended by this run included.
C3_NewColumnHoldsResults ==
    actualizado_historico =>
        /\ new_col_idx >= COL_FECHAS_INICIA_EN
        /\ GetCell(ws_hist, 1, new_col_idx) = fecha_str
        /\ \A k \in 1..Len(dict_sku_precio_kg_jumbo) :
            LET e == dict_sku_precio_kg_jumbo[k]
                r == FilaDelSku(ws_hist, e.sku, COL_SKU_HIST)
            IN  e.sku # << >> =>
                    /\ r > 1
                    /\ GetCell(ws_hist, r, new_col_idx)
                           = IF e.val = PyNone THEN Blank ELSE e.val

\* C3 witness: the flow returned normally; one identifier, appended by this run,
\* has a result, and another has none.
C3_Witness ==
    /\ actualizado_historico
    /\ \E k \in 1..Len(dict_sku_precio_kg_jumbo) :
        /\ dict_sku_precio_kg_jumbo[k].sku \in SinFilaAntes
        /\ dict_sku_precio_kg_jumbo[k].val # PyNone
    /\ \E k \in 1..Len(dict_sku_precio_kg_jumbo) :
        /\ dict_sku_precio_kg_jumbo[k].sku # << >>
        /\ dict_sku_precio_kg_jumbo[k].val = PyNone

\* C4: after escribir_jumbo_historico returned normally, every non-empty
\* identifier that had no data row in column B before the run has exactly one
\* now, below the rows populated before the run, with the identifier in B and
\* blanks before it; an identifier that had data rows has the same rows; column
\* B is unchanged down to the last row populated before, and the rows with an
\* identifier below it are as many as the identifiers that had none.
C4_OneRowPerNewIdentifier ==
    actualizado_historico =>
        /\ \A sku \in SinFilaAntes :
            \E r \in FilasDeDatos(ws_hist, sku) :
                /\ FilasDeDatos(ws_hist, sku) = {r}
                /\ r > LastRow(hist0)
                /\ GetCell(ws_hist, r, COL_SKU_HIST) = PyStr(sku)
                /\ \A c \in 1..(COL_SKU_HIST - 1) : GetCell(ws_hist, r, c) = Blank
        /\ \A sku \in Identificadores \ SinFilaAntes :
            FilasDeDatos(ws_hist, sku) = FilasDeDatos(hist0, sku)
        /\ \A r \in 1..LastRow(hist0) :
            GetCell(ws_hist, r, COL_SKU_HIST) = GetCell(hist0, r, COL_SKU_HIST)
        /\ Cardinality({r \in 2..ws_hist.row_count :
                           /\ r > LastRow(hist0)
                           /\ GetCell(ws_hist, r, COL_SKU_HIST) # Blank})
               = Cardinality(SinFilaAntes)

\* C4 witness: the flow returned normally with one identifier that had a data
\* row and one that had none.
C4_Witness ==
    /\ actualizado_historico
    /\ SinFilaAntes # {}
    /\ Identificadores \ SinFilaAntes # {}

\* C5 as stated: in scraper_improved.py the column that
\* obtener_siguiente_columna_historico chooses, when its reading of the sheet does
\* not raise, is the one after the last populated column of the whole sheet
\* (header row and data rows), and at least C.  The code measures row 1 alone.
C5_ColumnAfterMaxPopulated ==
    (/\ script = "improved"
     /\ Len(intentos) = 2
     /\ new_col_idx = obtener_siguiente_columna_historico(hist0, FALSE)) =>
        new_col_idx = Max({LastCol(hist0) + 1, COL_FECHAS_INICIA_EN})

\* the cells of "Jumbo" that differ from what they held when the run started
CeldasCambiadasHist ==
    {p \in Celdas(ws_hist) : GetCell(ws_hist, p[1], p[2]) # GetCell(hist0, p[1], p[2])}

\* C6: in scraper.py, whatever the API does, every cell of "Jumbo" that was
\* populated before the run holds what it held, and every cell that differs is
\* either in the chosen column, which lies beyond every column populated before
\* and is at least C, or an identifier cell below the rows populated before.
C6_AppendOnly ==
    script = "scraper" =>
        /\ \A p \in Celdas(hist0) :
            GetCell(hist0, p[1], p[2]) # Blank =>
                GetCell(ws_hist, p[1], p[2]) = GetCell(hist0, p[1], p[2])
        /\ \A p \in CeldasCambiadasHist :
            \/ /\ p[2] = new_col_idx
               /\ new_col_idx > LastCol(hist0)
               /\ new_col_idx >= COL_FECHAS_INICIA_EN
            \/ /\ p[2] = COL_SKU_HIST
               /\ p[1] > LastRow(hist0)

\* C6 witness: scraper.py's flow returned normally on a sheet whose data rows
\* reach beyond the header row, wrote a result, and appended a row.
C6_Witness ==
    /\ script = "scraper"
    /\ actualizado_historico
    /\ LastColOfRow(hist0, 1) >= COL_FECHAS_INICIA_EN
    /\ LastColOfRow(hist0, 1) < LastCol(hist0)
    /\ SinFilaAntes # {}
    /\ \E p \in CeldasCambiadasHist : p[1] > 1 /\ p[2] = new_col_idx

-----------------------------------------------------------------------------
(* Properties of main, checked under Spec *)

\* escribir_pweb was called and raised
PwebFallo == Len(intentos) >= 1 /\ intentos[1].flujo = "pweb" /\ ~actualizado_pweb

\* escribir_jumbo_historico was called after escribir_pweb
HistoricoIntentado == Len(intentos) = 2 /\ intentos[2].flujo = "hist"

\* C7: in scraper_improved.py, once escribir_pweb has raised, main stands at the
\* call of escribir_jumbo_historico or has made it, with the mapping
\* escribir_pweb received; in particular no run ends without that call.
C7_HistAttemptedAfterPwebFailure ==
    (script = "improved" /\ PwebFallo) =>
        \/ pc = "hist"
        \/ /\ HistoricoIntentado
           /\ intentos[2].arg = intentos[1].arg
           /\ intentos[2].arg = dict_sku_precio_kg_jumbo

\* C7 witness: a run of scraper_improved.py in which escribir_pweb raised on a
\* non-empty mapping and escribir_jumbo_historico was then called.
C7_Witness ==
    /\ script = "improved"
    /\ PwebFallo
    /\ HistoricoIntentado
    /\ intentos[1].arg # << >>

\* C8 as stated: in scraper.py, once escribir_pweb has raised, main stands at
\* the call of escribir_jumbo_historico or has made it.  The code lets the
\* exception leave main.
C8_HistAttemptedAfterPwebFailure ==
    (script = "scraper" /\ PwebFallo) => (pc = "hist" \/ HistoricoIntentado)

\* C9: in scraper_improved.py, once the write phase is reached, a run that has
\* raised did so with the RuntimeError of the end of main, after both flows were
\* called and the tally printed, and one of the flows had failed; a run that
\* returned had both flows succeed, after both were called and the tally
\* printed; and main is nowhere else than in the write phase or ended.
C9_RaisedIffAFlowFailed ==
    (script = "improved" /\ Len(intentos) >= 1) =>
        /\ pc \in {"hist", "resumen", "fin", "raised"}
        /\ pc = "raised" =>
            /\ ~actualizado_pweb \/ ~actualizado_historico
            /\ pendiente = "RuntimeError"
            /\ HistoricoIntentado
            /\ resumen.impreso
        /\ pc = "fin" =>
            /\ actualizado_pweb /\ actualizado_historico
            /\ pendiente = ""
            /\ HistoricoIntentado
            /\ resumen.impreso
        /\ pc \in {"hist", "resumen"} => pendiente = ""

\* C9 witness: a run of scraper_improved.py raised after escribir_pweb succeeded
\* and escribir_jumbo_historico failed.
C9_Witness ==
    /\ script = "improved"
    /\ pc = "raised"
    /\ actualizado_pweb
    /\ ~actualizado_historico
    /\ HistoricoIntentado
    /\ resumen.impreso

\* C10: build_browser() returns a driver at most once; driver.quit() is never
\* called without a driver nor more than once; and once the loop is left, by
\* its end, by an exception or by an interruption (main in the write phase,
\* returned or raised), driver.quit() has been called exactly once.
C10_BrowserClosedOnce ==
    /\ builds <= 1
    /\ quits <= builds
    /\ (builds = 1 /\ pc \in {"pweb", "hist", "resumen", "fin", "raised"}) => quits = 1
    /\ pc \in {"loop", "finally", "pweb", "hist", "resumen"} => builds = 1

\* C10 witness: the loop was interrupted before its last row, and main raised
\* the interruption after one call of driver.quit().
C10_Witness ==
    /\ pc = "raised"
    /\ pendiente = "KeyboardInterrupt"
    /\ idx < Len(productos)
    /\ builds = 1
    /\ quits = 1

-----------------------------------------------------------------------------
(* Properties of the row loop, checked under Spec *)

\* the declared weight is missing, zero or negative
PesoInvalido(item) == item.PesoJumbo_g = PyNone \/ item.PesoJumbo_g.n <= 0

\* the step is an iteration of the row loop, over the row productos[idx + 1]
Iteracion == pc = "loop" /\ idx < Len(productos) /\ idx' = idx + 1

\* C11: in scraper.py, an iteration over a row whose identifier or URL is empty
\* or whose weight is missing, zero or negative calls driver.get not once and
\* obtains no fetch status, leaves None under the row's identifier, and leaves
\* main in the loop, at the next row, with no exception pending.
C11_InvalidRowSkipped ==
    [][(/\ script = "scraper"
        /\ Iteracion
        /\ LET item == productos[idx + 1]
           IN  item.SKU = << >> \/ item.URL = << >> \/ PesoInvalido(item))
       => (/\ gets' = 0
           /\ status' = ""
           /\ Tiene(dict_sku_precio_kg_jumbo', productos[idx + 1].SKU)
           /\ Valor(dict_sku_precio_kg_jumbo', productos[idx + 1].SKU) = PyNone
           /\ pc' = "loop"
           /\ pendiente' = "")]_vars

\* a row without weight was skipped, and the row after it was fetched and priced
C11_Witness ==
    /\ script = "scraper"
    /\ pc = "loop"
    /\ idx = 2
    /\ productos[1] = Item(Sku7, Url, PyNone)
    /\ productos[2] = Item(SkuA, Url, PyInt(500))
    /\ gets = 1
    /\ dict_sku_precio_kg_jumbo = << [sku |-> Sku7, val |-> PyNone],
                                     [sku |-> SkuA, val |-> PyInt(15980)] >>

\* C12: in scraper_improved.py, an iteration over a row whose weight is missing,
\* zero or negative calls driver.get not once and leaves None under the row's
\* identifier.
C12_BadWeightNotFetched ==
    [][(/\ script = "improved"
        /\ Iteracion
        /\ productos[idx + 1].SKU # << >>
        /\ PesoInvalido(productos[idx + 1]))
       => (/\ gets' = 0
           /\ Tiene(dict_sku_precio_kg_jumbo', productos[idx + 1].SKU)
           /\ Valor(dict_sku_precio_kg_jumbo', productos[idx + 1].SKU) = PyNone)]_vars

\* the fetch of the row iterated last failed on every attempt
FetchFallido == idx >= 1 /\ status \in Fallos

C14_FlushAfterInterruption ==
    (pc = "raised" /\ pendiente = "KeyboardInterrupt" /\ idx >= 1) =>
        /\ Len(intentos) = 2
        /\ intentos[1] = [flujo |-> "pweb", arg |-> dict_sku_precio_kg_jumbo]
        /\ intentos[2] = [flujo |-> "hist", arg |-> dict_sku_precio_kg_jumbo]

\* C15: in a run without SHEET_ID or without GCP_SHEETS_CREDENTIALS, main never
\* gets past its start: it has raised RuntimeError or is about to, and no row
\* has been read or iterated, no browser built, no page fetched, no write flow
\* invoked, no cell of either sheet changed.
C15_MissingConfigFailsFirst ==
    (~env.SHEET_ID \/ ~env.GCP_SHEETS_CREDENTIALS) =>
        /\ \/ pc = "inicio" /\ pendiente = ""
           \/ pc = "raised" /\ pendiente = "RuntimeError"
        /\ idx = 0
        /\ dict_sku_precio_kg_jumbo = << >>
        /\ builds = 0
        /\ gets = 0
        /\ status = ""
        /\ intentos = << >>
        /\ ~resumen.impreso
        /\ ws_pweb = pweb0
        /\ ws_hist = hist0

\* SHEET_ID is set, the credentials are not, there are rows to read, and the
\* run has raised
C15_Witness ==
    /\ env.SHEET_ID
    /\ ~env.GCP_SHEETS_CREDENTIALS
    /\ Len(productos) = 2
    /\ pc = "raised"
    /\ pendiente = "RuntimeError"

-----------------------------------------------------------------------------
(* Properties of the helpers, checked under SpecCalc *)

\* the call of f has returned
Hecha(f) == llamada.f = f /\ llamada.hecho

\* the weight is a number <= 0 (nan, inf and 5e-324 are not)
NoPositivo(peso_gr) == peso_gr.t = "int" /\ peso_gr.n <= 0

\* the float product int(precio) / peso_gr * 1000 is nan or infinite
SinProductoFinito(precio, peso_gr) ==
    \/ peso_gr = NaN
    \/ peso_gr = Infimo /\ precio.n # 0

\* C16 (as stated): precio_por_kg returns None when the price is None, or the
\* weight is None, or the weight is <= 0, and an int in every other case with
\* a numeric weight.
C16_NoneIffNoPriceOrBadWeight ==
    Hecha("precio_por_kg") =>
        LET precio == llamada.args[1]
            peso_gr == llamada.args[2]
        IN  IF precio = PyNone \/ peso_gr = PyNone \/ NoPositivo(peso_gr)
            THEN llamada.res = PyNone
            ELSE llamada.res = PyInt(llamada.res.n)

\* C16 (amended): precio_por_kg returns None when the price is None, or the
\* weight is None, or the weight is <= 0, or the weight is nan, or the float
\* product int(precio) / peso_gr * 1000 is infinite; it returns an int in
\* every other case, and never raises.
C16_NoneIffNoFiniteResult ==
    Hecha("precio_por_kg") =>
        LET precio == llamada.args[1]
            peso_gr == llamada.args[2]
        IN  IF \/ precio = PyNone
               \/ peso_gr = PyNone
               \/ NoPositivo(peso_gr)
               \/ SinProductoFinito(precio, peso_gr)
            THEN llamada.res = PyNone
            ELSE llamada.res = PyInt(llamada.res.n)

\* a price with the weight 5e-324, which is a number above 0, gave None
C16_Witness ==
    /\ Hecha("precio_por_kg")
    /\ llamada.args = << PyInt(7990), Infimo >>
    /\ llamada.res = PyNone

\* p * 1000 / w rounded to the nearest integer, ties to even, in exact
\* arithmetic
NearestTiesToEven(p, w) ==
    LET q == (p * 1000) \div w
        r == (p * 1000) % w
    IN  IF 2 * r < w THEN q
        ELSE IF 2 * r > w THEN q + 1
        ELSE IF q % 2 = 0 THEN q ELSE q + 1

\* C17: for a positive price p and a positive weight w, precio_por_kg returns
\* p / w * 1000 rounded to the nearest integer, ties to even.
C17_NearestTiesToEven ==
    (/\ Hecha("precio_por_kg")
     /\ llamada.args[1] # PyNone
     /\ llamada.args[2] # PyNone
     /\ llamada.args[1].n > 0
     /\ llamada.args[2].t = "int"
     /\ llamada.args[2].n > 0)
    => llamada.res = PyInt(NearestTiesToEven(llamada.args[1].n, llamada.args[2].n))

\* two characters that are the same letter, whatever their case
MismaLetra(a, b) ==
    \/ a = b
    \/ \E i \in 1..Len(MAYUSCULAS) : {a, b} = {MAYUSCULAS[i], MINUSCULAS[i]}

\* the text has the word at position i, letter case apart
EstaEn(t, palabra, i) ==
    /\ i + Len(palabra) - 1 <= Len(t)
    /\ \A k \in 1..Len(palabra) : MismaLetra(t[i + k - 1], palabra[k])

ContieneSinCaso(t, palabra) == \E i \in 1..Len(t) : EstaEn(t, palabra, i)

\* the fragments C18 says are rejected
Rechazable(t) ==
    \/ \E palabra \in PALABRAS_EXCLUIR : ContieneSinCaso(t, palabra)
    \/ EstaEn(t, << "n", "o", "r", "m", "a", "l" >>, 1)
    \/ ~(ContieneSinCaso(t, << "$" >>) \/ ContieneSinCaso(t, << "c", "l", "p" >>))

\* C18: es_precio_valido is False, whatever the letter case, for every fragment
\* that contains one of the excluded words, or opens with "normal", or contains
\* neither "$" nor "clp"; and the text encontrar_precios_en_dom takes the unit
\* price from is never a text es_precio_valido rejects.
C18_RejectedFragmentNeverSource ==
    /\ Hecha("es_precio_valido") =>
            (Rechazable(llamada.args[1]) => llamada.res = FALSE)
    /\ Hecha("encontrar_precios_en_dom") =>
            LET textos == Textos(llamada.args[1])
                r == llamada.res
            IN  /\ r.fuente \in 0..Len(textos)
                /\ r.unit # PyNone <=> r.fuente # 0
                /\ r.fuente # 0 =>
                       /\ ~Rechazable(textos[r.fuente])
                       /\ es_precio_valido(textos[r.fuente])
                       /\ r.unit = extraer_precio(textos[r.fuente])

\* the page shows "Prime $ 7.990" and then "CLP 1.290": the unit price is
\* 1290, from the second text
C18_Witness ==
    /\ Hecha("encontrar_precios_en_dom")
    /\ Len(llamada.args[1]) = 2
    /\ ContieneSinCaso(llamada.args[1][1], << "p", "r", "i", "m", "e" >>)
    /\ extraer_precio(llamada.args[1][1]) = PyInt(7990)
    /\ llamada.res.unit = PyInt(1290)
    /\ llamada.res.fuente = 2

-----------------------------------------------------------------------------
(* Properties of the tally, checked under Spec *)

\* C19: in scraper.py the tally that is printed is consistent: the total is
\* the count with a value plus the count without, and the count with a value
\* is the number of identifiers whose recorded result is not None.
C19_TallyConsistent ==
    (script = "scraper" /\ resumen.impreso) =>
        /\ resumen.total = resumen.con_valor + resumen.sin_valor
        /\ resumen.con_valor = ConValor(dict_sku_precio_kg_jumbo)

-----------------------------------------------------------------------------
(* Properties of the fetch step, checked under SpecFetchJusto *)

EsFetch == llamada.f \in {"obtener_precios", "obtener_precio_mejorado"}

\* the attempts whose outcome is a page with a price
ConPrecio(outs) ==
    {i \in 1..Len(outs) : outs[i] \in ConPrecioImproved \cup ConPrecioScraper}

\* the status a failed attempt leaves in last_err
EstadoDe(f, o) ==
    IF o.t = "timeout" THEN "timeout"
    ELSE IF o.t = "error"
         THEN (IF f = "obtener_precios" THEN "error_navegacion" ELSE "error")
         ELSE "precio_no_encontrado"

\* the prices a fetch function returns, and those of an attempt
PreciosDe(f, r) == IF f = "obtener_precios" THEN << r.unit, r.kg >> ELSE << r.precio >>
SinPrecios(f) == IF f = "obtener_precios" THEN << PyNone, PyNone >> ELSE << PyNone >>

\* at most RETRIES + 1 calls of driver.get, none after the first attempt with a
\* price; without any such attempt no price and the status of the last attempt
FetchAcotado ==
    EsFetch =>
        LET f == llamada.f
            outs == llamada.args[1]
            con == ConPrecio(outs)
            r == llamada.res
        IN  IF ~llamada.hecho
            THEN /\ llamada.locales.gets <= RETRIES + 1
                 /\ \A i \in 1..llamada.locales.gets : i \notin con
            ELSE /\ r.gets \in 1..(RETRIES + 1)
                 /\ \A i \in 1..(r.gets - 1) : i \notin con
                 /\ IF con # {}
                    THEN /\ r.gets \in con
                         /\ PreciosDe(f, r) = PreciosDe(f, outs[r.gets])
                         /\ r.status \notin Fallos
                    ELSE /\ r.gets = RETRIES + 1
                         /\ PreciosDe(f, r) = SinPrecios(f)
                         /\ r.status = EstadoDe(f, outs[RETRIES + 1])
                 /\ r = IF f = "obtener_precios" THEN obtener_precios(outs, 1, "")
                        ELSE obtener_precio_mejorado(outs, 1, "")

\* C20: the fetch step always returns; it calls driver.get at most RETRIES + 1
\* times, never again after the first attempt that yields a price, and when
\* every attempt fails it returns no price with the status of the last attempt.
C20_FetchTerminatesWithinRetries ==
    /\ []FetchAcotado
    /\ (EsFetch /\ ~llamada.hecho) ~> llamada.hecho

\* obtener_precio_mejorado met a timeout, then a page whose selectors gave a
\* price: it returned after the second attempt, the third outcome unused
C20_Witness ==
    /\ Hecha("obtener_precio_mejorado")
    /\ llamada.args[1][1].t = "timeout"
    /\ llamada.args[1][2] = [t |-> "pagina", metodo |-> "selectores", precio |-> PyInt(7990)]
    /\ llamada.args[1][3] \in ConPrecioScraper
    /\ llamada.res = [precio |-> PyInt(7990), status |-> "selectores", gets |-> 2]

-----------------------------------------------------------------------------
(* Properties of the parsing helpers, checked under SpecCalc *)

Min(S) == CHOOSE x \in S : \A y \in S : x <= y

\* the positions of the texts that qualify for the unit price, and for the
\* per-kg price
ConUnitario(textos) ==
    {i \in 1..Len(textos) :
        /\ es_precio_valido(textos[i])
        /\ extraer_precio(textos[i]) # PyNone
        /\ extraer_precio(textos[i]).n > 0}

ConKg(textos) ==
    {i \in 1..Len(textos) :
        /\ extraer_precio_por_kg(textos[i]) # PyNone
        /\ extraer_precio_por_kg(textos[i]).n > 0}

\* C21: encontrar_precios_en_dom returns as unit price the parse of the
\* earliest text that passes es_precio_valido and gives a positive
\* extraer_precio, and as per-kg price, whatever the unit price, the parse of
\* the earliest text that gives a positive extraer_precio_por_kg; each is None
\* when no text qualifies.
C21_FirstMatchWins ==
    Hecha("encontrar_precios_en_dom") =>
        LET textos == Textos(llamada.args[1])
            r == llamada.res
            us == ConUnitario(textos)
            ks == ConKg(textos)
        IN  /\ IF us = {} THEN r.unit = PyNone /\ r.fuente = 0
               ELSE r.unit = extraer_precio(textos[Min(us)]) /\ r.fuente = Min(us)
            /\ IF ks = {} THEN r.kg = PyNone
               ELSE r.kg = extraer_precio_por_kg(textos[Min(ks)])

\* the page shows "990 x kg" and then "$ 1.290/kg": the per-kg price is 990
\* from the first text, the unit price 1290 from the second
C21_Witness ==
    /\ Hecha("encontrar_precios_en_dom")
    /\ Len(llamada.args[1]) = 2
    /\ ConKg(Textos(llamada.args[1])) = {1, 2}
    /\ ConUnitario(Textos(llamada.args[1])) = {2}
    /\ llamada.res.kg = PyInt(990)
    /\ llamada.res.unit = PyInt(1290)

\* the patterns of PRECIO_REGEXES that match the text
PatronesCon(t) == {n \in 1..Len(PRECIO_REGEXES) : BuscarPrecio(t, PRECIO_REGEXES[n]).hay}

\* C22: extraer_precio takes the first pattern of PRECIO_REGEXES that matches
\* and its first match; the result is that match without separators as an int,
\* or None when what is left is no number; no later pattern is consulted once
\* a pattern has matched. None when no pattern matches.
C22_FirstPatternDecides ==
    Hecha("extraer_precio") =>
        LET t == Strip(llamada.args[1])
            ps == PatronesCon(t)
        IN  IF ps = {} THEN llamada.res = PyNone
            ELSE LET bruto == SinSeparadores(BuscarPrecio(t, PRECIO_REGEXES[Min(ps)]).grupo)
                 IN  llamada.res = IF isdigit(bruto) THEN PyInt(int(bruto)) ELSE PyNone

-----------------------------------------------------------------------------
(* Properties of the order of the phases, checked under Spec *)

\* a write flow has been invoked, or a cell of a sheet has changed
Escrito == intentos # << >> \/ ws_pweb # pweb0 \/ ws_hist # hist0

\* where the phases stand, in any state of a run
FasesEnOrden ==
    /\ Escrito =>
           /\ productos # << >>
           /\ idx = Len(productos)
           /\ builds = 1
           /\ quits = 1
    /\ Len(intentos) <= 2
    /\ Len(intentos) >= 1 => intentos[1].flujo = "pweb"
    /\ Len(intentos) = 2 => intentos[2].flujo = "hist"
    /\ ws_pweb # pweb0 => Len(intentos) >= 1
    /\ ws_hist # hist0 => Len(intentos) = 2
    /\ resumen.impreso => Len(intentos) = 2

\* a step of a run that has reached its writes goes back to no earlier phase
SinVueltaAtras ==
    /\ (intentos # << >>) =>
           UNCHANGED << idx, dict_sku_precio_kg_jumbo, gets, builds, quits >>
    /\ resumen.impreso => UNCHANGED << intentos, ws_pweb, ws_hist >>

\* C23: in both scripts no write flow is invoked and no cell is written before
\* every row has been processed and the browser closed; escribir_pweb is
\* invoked before escribir_jumbo_historico; the tally is printed only after
\* both. Once a flow has been invoked no row is processed and the browser is
\* not touched; once the tally is printed nothing is written.
C23_PhasesStrictlyOrdered == [][FasesEnOrden /\ FasesEnOrden' /\ SinVueltaAtras]_vars

\* a run of scraper.py over two rows has written both sheets and printed its
\* tally
C23_Witness ==
    /\ script = "scraper"
    /\ Len(productos) = 2
    /\ idx = 2
    /\ quits = 1
    /\ Len(intentos) = 2
    /\ ws_pweb # pweb0
    /\ ws_hist # hist0
    /\ resumen.impreso

-----------------------------------------------------------------------------
(* Properties of the chunked flush, checked under SpecCalc *)

RECURSIVE Aplanar(_)
Aplanar(ls) == IF ls = << >> THEN << >> ELSE Head(ls) \o Aplanar(Tail(ls))

\* C24: the batches escribir_jumbo_historico passes to batch_update hold
\* between 1 and 50 writes each and, put end to end in the order sent, are the
\* staged list; with nothing staged no batch is sent.
C24_EveryStagedWriteSentOnce ==
    Hecha("lotes") =>
        LET updates == llamada.args[1]
            lotes == llamada.res
        IN  /\ \A k \in 1..Len(lotes) : Len(lotes[k]) \in 1..50
            /\ Aplanar(lotes) = updates
            /\ updates = << >> => lotes = << >>

\* 101 staged writes went out in three batches, the last of one write
C24_Witness ==
    /\ Hecha("lotes")
    /\ Len(llamada.args[1]) = 101
    /\ Len(llamada.res) = 3
    /\ Len(llamada.res[1]) = 50
    /\ llamada.res[3] = << llamada.args[1][101] >>

-----------------------------------------------------------------------------
(* Properties of two runs on one day, checked under SpecDosCorridas *)

\* two runs of the historical flow have completed, one after the other
DosCorridas == previa.hay /\ actualizado_historico

\* C25: after two consecutive complete runs of the historical flow with the
\* same date label, the second run's column is the one right after the first
\* run's, both headers hold that date, and no cell of the first run's column
\* was changed by the second run.
C25_SecondRunTakesNextColumn ==
    DosCorridas =>
        /\ new_col_idx = previa.col + 1
        /\ GetCell(ws_hist, 1, previa.col) = fecha_str
        /\ GetCell(ws_hist, 1, new_col_idx) = fecha_str
        /\ \A r \in 1..ws_hist.row_count :
               GetCell(ws_hist, r, previa.col) = GetCell(previa.ws, r, previa.col)

\* both runs read the sheet: each column is the one the header row gives
\* (scraper.py has no fallback column: a failed read ends its run)
LecturasLogradas ==
    script = "improved" =>
        /\ previa.col = obtener_siguiente_columna_historico(hist0, FALSE)
        /\ new_col_idx = obtener_siguiente_columna_historico(previa.ws, FALSE)

C25_SinFalloDeLectura ==
    (DosCorridas /\ LecturasLogradas) => C25_SecondRunTakesNextColumn

-----------------------------------------------------------------------------
(* Properties of one row of scraper_improved.py main, checked under SpecFila *)

\* the row of the call has an identifier and a URL, and its body has run
FilaHecha ==
    /\ llamada.f = "fila"
    /\ llamada.hecho
    /\ llamada.args[2].SKU # << >>
    /\ llamada.args[2].URL # << >>

\* what the fetch of the row returned
Obtenido == obtener_precios(llamada.args[3], 1, "")

\* the weight is declared and is not zero
PesoDeclarado(peso) == peso # PyNone /\ peso # PyInt(0)

\* the result the row is to record
Esperado ==
    LET peso == llamada.args[2].PesoJumbo_g
    IN  IF Obtenido.kg # PyNone THEN Obtenido.kg
        ELSE IF Obtenido.unit # PyNone /\ PesoDeclarado(peso)
             THEN precio_por_kg(Obtenido.unit, peso)
             ELSE PyNone

\* C26: in scraper_improved.py main, a row with identifier and URL records
\* exactly one result: the per-kg price the fetch returned, if any; else
\* precio_por_kg(unit price, weight) when there is a unit price and the weight
\* is declared and not zero; else None. The other results are left alone.
C26_RowRecordsChosenResult ==
    FilaHecha =>
        LET d == llamada.args[1]
            sku == llamada.args[2].SKU
        IN  /\ Tiene(llamada.res, sku)
            /\ Valor(llamada.res, sku) = Esperado
            /\ Cardinality({k \in 1..Len(llamada.res) : llamada.res[k].sku = sku}) = 1
            /\ Len(llamada.res) = Len(d) + (IF Tiene(d, sku) THEN 0 ELSE 1)
            /\ \A k \in 1..Len(d) : d[k].sku # sku => llamada.res[k] = d[k]

\* a row with both prices on the page and a declared weight has recorded the
\* per-kg price, which differs from the conversion of the unit price
C26_Witness ==
    /\ FilaHecha
    /\ Obtenido.kg # PyNone
    /\ Obtenido.unit # PyNone
    /\ PesoDeclarado(llamada.args[2].PesoJumbo_g)
    /\ precio_por_kg(Obtenido.unit, llamada.args[2].PesoJumbo_g) # Obtenido.kg
    /\ Tiene(llamada.args[1], llamada.args[2].SKU)
    /\ Valor(llamada.res, llamada.args[2].SKU) = Obtenido.kg

====
